---- MODULE Spec2Model ----
(***************************************************************************)
(* Alarm escalation job engine (services/correlator/alarmjob.py).          *)
(*                                                                         *)
(* The model follows AlarmJob objects held by concurrent invocations       *)
(* (API handlers, scheduler workers), the active/archived alarm store,     *)
(* the persisted job snapshots and the process lock.                       *)
(***************************************************************************)
EXTENDS Integers, Sequences, FiniteSets, TLC

\* ------------------------------------------------------------------ bounds
\* Timestamps and `now` range over 0..MaxTs.
MaxTs == 1
\* Cap on the length of a job's action list (appends are guarded by it).
MaxActions == 3
\* Number of action configs a request carries at most.
MaxReqActions == 2
\* Number of run() calls made on one AlarmJob object.
MaxRuns == 2

\* Invocations (threads running run_alarm_job or an API handler).
Procs == {1, 2}
JobIds == {1, 2}
AlarmIds == {1, 2}
\* Python's None for an alarm reference.
None == 0
\* Alarm severities; 0 is also AlarmJob.__init__'s default base severity.
Sev == {0, 1}

ItemStatuses == {"NEW", "CHANGED", "PROCESSED", "REMOVED", "ARCHIVED"}
ActionStatuses == {"NEW", "SUCCESS", "FAILED", "SKIP"}
WhenConditions == {"IMMEDIATE", "ON_END"}
EndConditions == {"CR", "CA", "CT", "M"}

VARIABLES
    alarms,     \* alarm store: id -> [st: "A" active | "C" archived | "X" gone, sev]
    snaps,      \* persisted job snapshots: job id -> snapshot record or NoSnap
    held,       \* lock service: set of <<key, proc>> currently owned
    pc,         \* position of every invocation
    job,        \* the AlarmJob object of every invocation (NoJob when none)
    call,       \* locals of the run() in progress: now, force_end, is_end, changed, ...
    trace       \* entries handed to the action runner by the run() in progress

vars == <<alarms, snaps, held, pc, job, call, trace>>

NoSnap == [status |-> "NONE"]
NoJob == [id |-> None]
\* Locals of run(): now, force_end, save_state, is_end, changed, the keys
\* handed to the lock, the sorted copy of the actions and the loop position;
\* exc says that the call raised.  Observations kept beside them: runs (calls
\* made on the object), acq (acquisitions of
\* the call), blockedBy (who held one of the keys when the call asked for
\* them and, from the acquisition on, who of them had returned from run() by
\* then), writes (what the call wrote to the alarm store and the snapshot
\* store, and whether it held the lock then), action (the operator action
\* run_action was called with when it made the call, "NONE" otherwise).
NoCall == [now |-> 0, force_end |-> FALSE, is_end |-> FALSE, changed |-> FALSE,
           save_state |-> TRUE, keys |-> {}, sorted |-> <<>>, pos |-> 0,
           exc |-> FALSE, runs |-> 0, acq |-> 0, blockedBy |-> {},
           writes |-> {}, action |-> "NONE"]

\* What is left of the locals once run() is over.
EndCall(c, exc, w) ==
    [NoCall EXCEPT !.runs = c.runs, !.exc = exc, !.acq = c.acq, !.writes = c.writes \cup w]

\* ------------------------------------------------------------ sequences
RECURSIVE SeqOfSet(_)
\* The elements of a finite set of integers in ascending order.
SeqOfSet(S) ==
    IF S = {} THEN <<>>
    ELSE LET m == CHOOSE x \in S : \A y \in S : x <= y
         IN  <<m>> \o SeqOfSet(S \ {m})

\* ------------------------------------------------------------------ items
\* Item(alarm, status): the in-memory alarm document is kept beside its id
\* (ast: its status field, sev: its severity field, as read when it was fetched).
MkItem(a, ast, sev, status) == [alarm |-> a, ast |-> ast, sev |-> sev, status |-> status]

\* ItemStatus.from_alarm (noc.core.fm.enum): a cleared alarm gives a removed item.
ItemStatus_from_alarm(ast, is_clear) ==
    IF ast = "C" \/ is_clear THEN "REMOVED" ELSE "NEW"

\* Item.from_alarm
Item_from_alarm(a, ast, sev, is_clear) ==
    IF a = None THEN MkItem(None, "-", 0, "ARCHIVED")
    ELSE MkItem(a, ast, sev, ItemStatus_from_alarm(ast, is_clear))

\* Item.is_close
is_close(item) == item.status \in {"REMOVED", "ARCHIVED"}

\* leader_item without the test of line 171.
leader_item_never_raises(j) == FALSE

\* AlarmJob.leader_item raises ValueError when the first item is archived.
leader_item_raises(j) == j.items[1].status = "ARCHIVED"

\* AlarmJob.alarm / AlarmJob.severity: attribute access on the leader's alarm
\* document; raises when the list is empty (items[0]), when leader_item
\* raises or when the reference is None.
severity_raises(j) ==
    j.items = <<>> \/ leader_item_raises(j) \/ j.items[1].alarm = None

severity(j) == j.items[1].sev

\* AlarmJob.is_group
is_group(j) == j.groups # {}

\* is_end with any() for all() under CA.
is_end_any_closed(j) ==
    CASE j.end_condition \in {"CR", "CT"} ->
            is_close(j.items[1]) \/ j.items[1].ast = "C"
      [] j.end_condition = "CA" ->
            \E k \in 1..Len(j.items) : is_close(j.items[k])
      [] j.end_condition = "M" -> FALSE
      [] OTHER -> TRUE

\* AlarmJob.is_end
is_end(j) ==
    CASE j.end_condition \in {"CR", "CT"} ->
            is_close(j.items[1]) \/ j.items[1].ast = "C"
      [] j.end_condition = "CA" ->
            \A k \in 1..Len(j.items) : is_close(j.items[k])
      [] j.end_condition = "M" -> FALSE
      [] OTHER -> TRUE

\* get_lock_items without the loop over the items: group keys only.
get_lock_items_groups_only(j) == {<<"g", g>> : g \in j.groups}

\* AlarmJob.get_lock_items: one key per item alarm, one per group.
get_lock_items(j) ==
    {<<"a", j.items[k].alarm>> : k \in 1..Len(j.items)}
        \cup {<<"g", g>> : g \in j.groups}

\* ---------------------------------------------------------------- entries
MkEntry(ts, status, when, rep, stop, doc, err) ==
    [ts |-> ts, status |-> status, when |-> when, repeat_num |-> rep,
     stop_processing |-> stop, document_id |-> doc, error |-> err]

\* ActionLog.from_request: a NEW entry at started_at carrying the config's
\* when / stop_processing.
ActionLog_from_request(cfg, started_at, doc) ==
    MkEntry(started_at + cfg.delay, "NEW", cfg.when, 0, cfg.stop, doc, "")

\* ActionLog.get_repeat: the clone scheduled repeat_delay later.
get_repeat(aa, delay) ==
    [aa EXCEPT !.ts = aa.ts + delay, !.status = "NEW",
               !.repeat_num = aa.repeat_num + 1, !.error = ""]

\* ActionLog.set_status: record the result on the entry.
set_status(aa, r) ==
    [aa EXCEPT !.status = r.status, !.error = r.error,
               !.document_id = IF r.document_id # 0 THEN r.document_id ELSE @]

\* The loop walking self.actions as it is, without sorted().
unsorted_actions(acts) == [r \in 1..Len(acts) |-> r]

\* sorted(self.actions, key=attrgetter("timestamp")): the indices of the
\* list in ascending timestamp order, equal timestamps in list order.
SortRank(acts, i) ==
    Cardinality({k \in 1..Len(acts) :
        acts[k].ts < acts[i].ts \/ (acts[k].ts = acts[i].ts /\ k < i)}) + 1

sorted_actions(acts) ==
    [r \in 1..Len(acts) |-> CHOOSE i \in 1..Len(acts) : SortRank(acts, i) = r]

\* Timestamps count ticks, TicksPerSecond of them to the second; null is
\* written NoTs.
TicksPerSecond == 2
NoTs == -1

\* datetime.replace(microsecond=0): the start of the second.
replace_microsecond_0(t) == (t \div TicksPerSecond) * TicksPerSecond

\* get_next_ts without the test of aa.when.
get_next_ts_any_when(j) ==
    LET s == sorted_actions(j.actions)
        hits == {r \in 1..Len(s) : j.actions[s[r]].status = "NEW"}
    IN  IF hits = {} THEN NoTs
        ELSE LET first == CHOOSE r \in hits : \A q \in hits : r <= q
             IN  replace_microsecond_0(j.actions[s[first]].ts + TicksPerSecond)

\* AlarmJob.get_next_ts: the first entry in timestamp order that is NEW and
\* not ON_END gives its timestamp plus one second, cut to the second.
get_next_ts(j) ==
    LET s == sorted_actions(j.actions)
        hits == {r \in 1..Len(s) :
                    j.actions[s[r]].status = "NEW" /\ j.actions[s[r]].when # "ON_END"}
    IN  IF hits = {} THEN NoTs
        ELSE LET first == CHOOSE r \in hits : \A q \in hits : r <= q
             IN  replace_microsecond_0(j.actions[s[first]].ts + TicksPerSecond)

\* ------------------------------------------------------------ alarm store
\* An alarm document: st (A active, C archived, X deleted), severity, and
\* what the correlator wrote when it raised the alarm: root, group_type,
\* vars["service"], affected_services, reference, groups.  The last six do
\* not change afterwards, so the copy an item holds equals the stored one.
ServiceIds == {1, 2}
GroupKeys == {10}
GroupTypes == {"NONE", "SERVICE", "GROUP"}
EscalationPolicies == {"ROOT", "ROOT_FIRST", "ALWAYS_FIRST", "ALWAYS"}
reference_of(a) == 20 + a

\* A root alarm without group, service or consequence.
PlainAlarm(a) ==
    [st |-> "A", sev |-> 1, root |-> None, group_type |-> "NONE",
     service |-> None, affected_services |-> {}, reference |-> reference_of(a),
     groups |-> {}]

\* ActiveAlarm.objects.filter(id=...).first(): the alarm when it is active.
active_alarm(a) == IF a # None /\ alarms[a].st = "A" THEN a ELSE None

\* get_alarm (noc.fm.models.utils): the active or the archived alarm.
get_alarm(a) == IF a # None /\ alarms[a].st # "X" THEN a ELSE None

\* ---------------------------------------------------------- construction
\* AlarmJob.__init__ (base severity defaults to 0, groups/services start
\* empty).  Kept beside the attributes: loaded (the object comes from a
\* snapshot) and built (the action list the object was constructed with).
MkJob(id, items, actions, sev, ec, mr, rd, profile, policy, loaded) ==
    [id |-> id, items |-> items, actions |-> actions, groups |-> {},
     services |-> {}, base_severity |-> sev, items_policy |-> policy,
     end_condition |-> ec, max_repeats |-> mr, repeat_delay |-> rd,
     profile |-> profile, loaded |-> loaded, built |-> actions,
     allowed_actions |-> {}]

\* Action configs of a request: delay before the step, when, stop_processing.
ActionConfigs == [delay : 0..1, when : WhenConditions, stop : BOOLEAN]

RequestsUpTo(cfgs, n) == UNION {[1..k -> cfgs] : k \in 0..n}

\* AlarmJob.from_request: one item (the alarm), one NEW entry per action config.
from_request(req, a) ==
    [MkJob(req.id,
           <<Item_from_alarm(a, alarms[a].st, alarms[a].sev, FALSE)>>,
           [k \in 1..Len(req.actions) |->
               ActionLog_from_request(req.actions[k], req.start_at, 0)],
           0, req.end_condition, req.max_repeats, req.repeat_delay,
           req.profile, req.item_policy, FALSE)
     EXCEPT !.allowed_actions = req.allowed_actions]

\* AlarmJob.items_from_state: active alarms first (store order), then the
\* archived ones, then one placeholder per alarm found in neither collection.
items_from_state(sitems) ==
    LET ids == {sitems[k].alarm : k \in 1..Len(sitems)}
        \* dict built from the list: the last status recorded for an id wins
        st(a) == sitems[CHOOSE k \in 1..Len(sitems) : sitems[k].alarm = a
                        /\ \A m \in k+1..Len(sitems) : sitems[m].alarm # a].status
        act == SeqOfSet({a \in ids : a # None /\ alarms[a].st = "A"})
        arc == SeqOfSet({a \in ids : a # None /\ alarms[a].st = "C"})
        gone == SeqOfSet({a \in ids : a = None \/ alarms[a].st = "X"})
    IN  [k \in 1..Len(act) |-> MkItem(act[k], "A", alarms[act[k]].sev, st(act[k]))]
        \o [k \in 1..Len(arc) |-> Item_from_alarm(arc[k], "C", alarms[arc[k]].sev, FALSE)]
        \o [k \in 1..Len(gone) |-> MkItem(None, "-", 0, "REMOVED")]

\* ------------------------------------------------------------ persistence
\* AlarmJob.save_state raises outside its try block when the job has no
\* action (actions[0]) or an item without alarm document (i.alarm.id).
save_state_raises(j) ==
    j.actions = <<>> \/ \E k \in 1..Len(j.items) : j.items[k].alarm = None

\* save_state with state.save() outside the try: a failing save raises.
save_failure_raised(ok) == ~ok

\* Lines 615-618: state.save() stands in a try/except that reports the
\* exception; whether the save succeeded (ok) or not, nothing is raised.
save_failure(ok) == FALSE

\* The AlarmJobState document built by AlarmJob.save_state.
save_state(j, is_completed) ==
    [id |-> j.id,
     status |-> IF is_completed THEN "SUCCESS" ELSE "WAITING",
     items |-> [k \in 1..Len(j.items) |->
                   [alarm |-> j.items[k].alarm, status |-> j.items[k].status]],
     actions |-> j.actions,
     groups |-> j.groups, services |-> j.services,
     severity |-> severity(j),
     end_condition |-> j.end_condition, max_repeats |-> j.max_repeats,
     repeat_delay |-> j.repeat_delay, profile |-> j.profile,
     is_dirty |-> FALSE]

\* ----------------------------------------------------------- action runner
\* What AlarmActionRunner.run_action can do with an entry: raise, or return an
\* ActionResult (status, error, follow-on action config, document id).
NoAction == [delay |-> 0, when |-> "NONE", stop |-> FALSE]
FollowOn == [delay |-> 0, when |-> "IMMEDIATE", stop |-> FALSE]

RunnerOutcomes ==
    {[raised |-> TRUE, status |-> "FAILED", error |-> "exc",
      action |-> NoAction, document_id |-> 0]}
    \cup {[raised |-> FALSE, status |-> "FAILED", error |-> "err",
           action |-> NoAction, document_id |-> 0]}
    \cup [raised : {FALSE}, status : {"SUCCESS"}, error : {""},
          action : {NoAction, FollowOn}, document_id : {0, 1}]

\* The runner called without the try/except: its exception leaves run().
action_result_uncaught(o) ==
    [status |-> o.status, error |-> o.error, action |-> o.action,
     document_id |-> o.document_id, escapes |-> o.raised]

\* Lines 374-385, the try/except around the runner: the ActionResult run()
\* goes on with (the except branch turns an exception into
\* ActionResult(status=FAILED, error=str(e))), and whether the exception
\* leaves the block (escapes).
action_result(o) ==
    IF o.raised
    THEN [status |-> "FAILED", error |-> o.error, action |-> NoAction,
          document_id |-> 0, escapes |-> FALSE]
    ELSE [status |-> o.status, error |-> o.error, action |-> o.action,
          document_id |-> o.document_id, escapes |-> FALSE]

\* Lines 387-398 with the result recorded on the appended entries too.
appended_entries_done(j, aa, r) ==
    (IF aa.repeat_num < j.max_repeats /\ r.status = "SUCCESS"
     THEN <<[get_repeat(aa, j.repeat_delay) EXCEPT !.status = r.status]>>
     ELSE <<>>)
    \o (IF r.action # NoAction
        THEN <<[ActionLog_from_request(r.action, aa.ts, r.document_id)
                    EXCEPT !.status = r.status]>>
        ELSE <<>>)

\* Lines 387-390 without the test of repeat_num: every success is repeated.
appended_entries_unbounded(j, aa, r) ==
    (IF r.status = "SUCCESS"
     THEN <<get_repeat(aa, j.repeat_delay)>> ELSE <<>>)
    \o (IF r.action # NoAction
        THEN <<ActionLog_from_request(r.action, aa.ts, r.document_id)>> ELSE <<>>)

\* The entries run() appends for an executed entry: the repeat clone, then the
\* follow-on action of the result.
appended_entries(j, aa, r) ==
    (IF aa.repeat_num < j.max_repeats /\ r.status = "SUCCESS"
     THEN <<get_repeat(aa, j.repeat_delay)>> ELSE <<>>)
    \o (IF r.action # NoAction
        THEN <<ActionLog_from_request(r.action, aa.ts, r.document_id)>> ELSE <<>>)

\* Lines 399-400 without the tests of end_condition and is_end.
adds_stop_clear_watch_any_document(j, r, isEnd) == r.document_id # 0

\* The condition under which run() registers the stop-on-clear watch.
adds_stop_clear_watch(j, r, isEnd) ==
    j.end_condition = "CT" /\ r.document_id # 0 /\ ~isEnd

\* --------------------------------------------------------------- the lock
\* ProcessLock.acquire(items) as a context manager: entered when no other
\* owner holds any of the keys, left (on return or exception) with the keys
\* released.
lock_free(keys, p) == \A h \in held : h[1] \in keys => h[2] = p

lock_enter(keys, p) == held \cup {<<k, p>> : k \in keys}

\* Leaving the with block of run(): the keys of the invocation are released
\* whether or not the block raised.
with_exit(p, exc) == {h \in held : h[2] # p}

holds_lock(p) == \E h \in held : h[2] = p

\* ------------------------------------------------- check_escalated / sync
\* ActiveAlarm.objects.filter(groups__in=groups): the active alarms of the groups.
alarms_in_groups(groups) ==
    {a \in AlarmIds : alarms[a].st = "A" /\ alarms[a].groups \cap groups # {}}

\* AlarmJob.check_escalated for a job with groups (lines 282-289).  The query
\* is written filter(groups_in=...), which names no field and no operator
\* of the document: the store either rejects it (resolved = FALSE, the call
\* raises) or answers as for groups__in.  ii.alarm.id raises on an item
\* without document.
check_escalated_raises(j, resolved) ==
    is_group(j) /\ (~resolved \/ \E k \in 1..Len(j.items) : j.items[k].alarm = None)

\* AlarmJob.check_escalated.  Without groups: the leader is looked up
\* among the active alarms; found, the item is rebuilt from the fresh
\* document, otherwise it is marked removed (its document stays as it was).
\* With groups: every item whose alarm the query returned is rebuilt.
check_escalated(j) ==
    IF is_group(j)
    THEN [j EXCEPT !.items = [k \in 1..Len(j.items) |->
            IF j.items[k].alarm \in alarms_in_groups(j.groups)
            THEN MkItem(j.items[k].alarm, "A", alarms[j.items[k].alarm].sev,
                        ItemStatus_from_alarm("A", FALSE))
            ELSE j.items[k]]]
    ELSE
    LET aa == active_alarm(j.items[1].alarm)
    IN  IF aa = None
        THEN [j EXCEPT !.items[1].status = "REMOVED"]
        ELSE [j EXCEPT !.items[1] =
                MkItem(aa, "A", alarms[aa].sev, ItemStatus_from_alarm("A", FALSE))]

\* AlarmJob.sync_items_status: the alarms that get the escalation watcher.
new_groups(j) ==
    {j.items[k].alarm : k \in {m \in 2..Len(j.items) :
                                 is_group(j) /\ j.items[m].status = "NEW"}}

\* AlarmJob.sync_items_status: non-leader NEW/CHANGED items become PROCESSED.
sync_items_status(j) ==
    [j EXCEPT !.items = [k \in 1..Len(j.items) |->
        IF k >= 2 /\ j.items[k].status \in {"NEW", "CHANGED"}
        THEN [j.items[k] EXCEPT !.status = "PROCESSED"]
        ELSE j.items[k]]]

\* ------------------------------------------- leader, membership, refresh
\* get_leader without the test of alarm.root (lines 421-423).
get_leader_root_ignored(j) ==
    LET a == j.items[1].alarm
        d == alarms[a]
        services == IF d.group_type = "SERVICE" /\ d.service # None
                    THEN {d.service} ELSE d.affected_services
        groups == IF d.group_type \in {"SERVICE", "GROUP"} /\ j.items_policy # "ROOT"
                  THEN {d.reference}
                  ELSE IF d.groups # {} /\ j.items_policy \in {"ALWAYS_FIRST", "ROOT_FIRST"}
                  THEN d.groups
                  ELSE {}
    IN  IF j.items_policy = "ROOT"
        THEN [leader |-> a, groups |-> {}, services |-> services]
        ELSE [leader |-> a, groups |-> groups, services |-> services]

\* AlarmJob.get_leader: the leader, the group keys and the services, read
\* from the document of the job's alarm.
get_leader(j) ==
    LET a == j.items[1].alarm
        d == alarms[a]
        services == IF d.group_type = "SERVICE" /\ d.service # None
                    THEN {d.service} ELSE d.affected_services
        groups == IF d.group_type \in {"SERVICE", "GROUP"} /\ j.items_policy # "ROOT"
                  THEN {d.reference}
                  ELSE IF d.groups # {} /\ j.items_policy \in {"ALWAYS_FIRST", "ROOT_FIRST"}
                  THEN d.groups
                  ELSE {}
    IN  IF d.root # None
        THEN [leader |-> None, groups |-> {}, services |-> {}]
        ELSE IF j.items_policy = "ROOT"
        THEN [leader |-> a, groups |-> {}, services |-> services]
        ELSE [leader |-> a, groups |-> groups, services |-> services]

\* AlarmJob.iter_groups_alarm: the active alarms of the groups, then the
\* active alarms whose reference is one of the keys (the order inside each
\* query, by root and timestamp, is taken as the order of the ids).
iter_groups_alarm(j, groups) ==
    IF j.items_policy \notin {"ROOT_FIRST", "ALWAYS_FIRST"} THEN <<>>
    ELSE SeqOfSet(alarms_in_groups(groups))
         \o SeqOfSet({a \in AlarmIds : alarms[a].st = "A" /\ alarms[a].reference \in groups})

\* ActiveAlarm.iter_consequences: the active alarms whose root is the alarm.
iter_consequences(a) ==
    SeqOfSet({c \in AlarmIds : alarms[c].st = "A" /\ alarms[c].root = a})

\* AlarmJob.iter_consequence
iter_consequence(j, a) ==
    IF alarms[a].root # None THEN <<>>
    ELSE (IF j.items_policy = "ROOT" THEN <<a>> ELSE <<>>) \o iter_consequences(a)

\* AlarmJob.iter_escalation_alarms
iter_escalation_alarms(j, a, groups) ==
    (IF groups # {} THEN iter_groups_alarm(j, groups) ELSE <<>>)
    \o (IF alarms[a].root = None THEN iter_consequence(j, a) ELSE <<>>)

\* The keys of the dict {ii.alarm.id: ii for ii in items}, in insertion order.
RECURSIVE dict_keys(_)
dict_keys(items) ==
    IF items = <<>> THEN <<>>
    ELSE <<Head(items).alarm>>
         \o dict_keys(SelectSeq(Tail(items), LAMBDA x : x.alarm # Head(items).alarm))

\* The value the dict holds for a key: the last item with this alarm.
dict_get(items, a) ==
    items[CHOOSE k \in 1..Len(items) :
            items[k].alarm = a /\ \A m \in (k + 1)..Len(items) : items[m].alarm # a]

\* refresh_items without its last loop: tracked items that left the
\* membership are dropped.
refresh_leftover_dropped(old, members) == <<>>

\* The last loop of refresh_items (lines 469-470): the tracked items that
\* were not popped, as REMOVED items.
refresh_leftover(old, members) ==
    LET rest == SelectSeq(dict_keys(old),
                          LAMBDA a : \A k \in 1..Len(members) : members[k] # a)
    IN  [k \in 1..Len(rest) |->
            [dict_get(old, rest[k]) EXCEPT !.status = "REMOVED"]]

\* refresh_items with the leader appended behind the members.
refresh_order_leader_last(first, members) == members \o <<first>>

\* Lines 453-468: the leader's item opens the list ("First as Leader"), the
\* items of the members follow.
refresh_order(first, members) == <<first>> \o members

\* AlarmJob.refresh_items raises when the leader cannot be read (get_leader)
\* or a tracked item has no document (ii.alarm.id).
refresh_items_raises(j) ==
    severity_raises(j) \/ \E k \in 2..Len(j.items) : j.items[k].alarm = None

\* AlarmJob.refresh_items: the leader first, then the alarms of
\* iter_escalation_alarms (a tracked item is taken over as it is, once; any
\* other alarm gets a new item), then the tracked items that are left.
refresh_items(j, include_groups) ==
    LET old == SubSeq(j.items, 2, Len(j.items))
        lead == get_leader(j)
        it == j.items[1]
        ys == iter_escalation_alarms(j, lead.leader, lead.groups)
        members == SelectSeq(ys, LAMBDA a : a # lead.leader)
        tracked(a) == \E k \in 1..Len(old) : old[k].alarm = a
        popped(k) == \E m \in 1..(k - 1) : members[m] = members[k]
        member_item(k) ==
            IF tracked(members[k]) /\ ~popped(k)
            THEN dict_get(old, members[k])
            ELSE MkItem(members[k], "A", alarms[members[k]].sev,
                        ItemStatus_from_alarm("A", FALSE))
    IN  IF lead.leader = None
        THEN [j EXCEPT !.items = <<>>]
        ELSE [j EXCEPT
                !.items = refresh_order(
                              Item_from_alarm(it.alarm, it.ast, it.sev, FALSE),
                              [k \in 1..Len(members) |-> member_item(k)])
                          \o refresh_leftover(old, members),
                !.services = lead.services \cup
                    UNION {alarms[ys[k]].affected_services : k \in 1..Len(ys)},
                !.groups = IF include_groups THEN lead.groups ELSE @]

\* AlarmJob.update_item: every item of the alarm takes the status and the
\* document of the alarm handed in; the loop raises at the first item
\* without document and leaves the items behind it as they were.
update_item(j, a, is_clear) ==
    LET bad == {k \in 1..Len(j.items) : j.items[k].alarm = None}
        upto == IF bad = {} THEN Len(j.items)
                ELSE (CHOOSE k \in bad : \A m \in bad : k <= m) - 1
    IN  [j EXCEPT !.items = [k \in 1..Len(j.items) |->
            IF k <= upto /\ j.items[k].alarm = a
            THEN MkItem(a, alarms[a].st, alarms[a].sev,
                        ItemStatus_from_alarm(alarms[a].st, is_clear))
            ELSE j.items[k]]]

\* ----------------------------------------------------------------- Init
Init ==
    /\ alarms = [a \in AlarmIds |-> PlainAlarm(a)]
    /\ snaps = [j \in JobIds |-> NoSnap]
    /\ held = {}
    /\ pc = [p \in Procs |-> "idle"]
    /\ job = [p \in Procs |-> NoJob]
    /\ call = [p \in Procs |-> NoCall]
    /\ trace = [p \in Procs |-> <<>>]

Observe(kind, p) == [kind |-> kind, locked |-> holds_lock(p)]

\* ------------------------------------------------------------ environment
\* An invocation reads the alarm store when it builds or loads a job (from
\* idle) and in check_escalated (once it holds the lock); a change of the
\* store is scheduled right before such a read of one of the invocations ps:
\* at any other moment it commutes with their steps.
AtRead(ps) == \E p \in ps : pc[p] \in {"idle", "locked"}

\* The alarm is cleared by the correlator: it leaves the active collection.
ClearAlarm(a, ps) ==
    /\ AtRead(ps)
    /\ alarms[a].st = "A"
    /\ alarms' = [alarms EXCEPT ![a].st = "C"]
    /\ UNCHANGED <<snaps, held, pc, job, call, trace>>

\* The archived alarm is deleted.
PurgeAlarm(a, ps) ==
    /\ AtRead(ps)
    /\ alarms[a].st = "C"
    /\ alarms' = [alarms EXCEPT ![a].st = "X", ![a].sev = 0]
    /\ UNCHANGED <<snaps, held, pc, job, call, trace>>

\* The severity of an active alarm changes.
ChangeSeverity(a, ps) ==
    /\ AtRead(ps)
    /\ alarms[a].st = "A"
    /\ \E v \in Sev \ {alarms[a].sev} : alarms' = [alarms EXCEPT ![a].sev = v]
    /\ UNCHANGED <<snaps, held, pc, job, call, trace>>

\* AlarmJob.from_state without the membership refresh of a dirty snapshot.
from_state_no_refresh(data, built) == built

\* Lines 698-699: a snapshot marked dirty has its items refreshed, groups
\* included, before the job is returned.
from_state_refresh(data, built) ==
    IF data.is_dirty THEN refresh_items(built, TRUE) ELSE built

\* The object AlarmJob.from_state hands to the constructor (item_policy is not
\* passed on: the object gets the default, ROOT; groups and services are not
\* passed on either).
from_state_built(data) ==
    MkJob(data.id, items_from_state(data.items), data.actions, data.severity,
          data.end_condition, data.max_repeats, data.repeat_delay,
          data.profile, "ROOT", TRUE)

\* AlarmJob.from_state raises when no item is found, AlarmJob.__init__
\* raises through self.alarm when the first item is archived, and the
\* refresh of a dirty snapshot raises as refresh_items does.
from_state_raises(data) ==
    LET items == items_from_state(data.items)
    IN  \/ items = <<>>
        \/ items[1].status = "ARCHIVED"
        \/ data.is_dirty /\ refresh_items_raises(from_state_built(data))

\* AlarmJob.from_state.
from_state(data) == from_state_refresh(data, from_state_built(data))

\* ------------------------------------------------------------ invocations
Requests(ids, cfgs, n, ecs, mrs) ==
    [id : ids, actions : RequestsUpTo(cfgs, n), start_at : {0},
     end_condition : ecs, max_repeats : mrs, repeat_delay : {1},
     profile : {None}, item_policy : {"ROOT"}, allowed_actions : {{}}]

\* An API handler builds a job for alarm a with AlarmJob.from_request; a
\* request naming an alarm that cannot be found raises and builds nothing.
FromRequest(p, req, a) ==
    /\ pc[p] = "idle"
    /\ snaps[req.id] = NoSnap
    /\ \A q \in Procs : job[q].id # req.id
    /\ get_alarm(a) # None
    /\ job' = [job EXCEPT ![p] = from_request(req, a)]
    /\ pc' = [pc EXCEPT ![p] = "ready"]
    /\ UNCHANGED <<alarms, snaps, held, call, trace>>

\* run_alarm_job: AlarmJob.get_by_id loads the job from its snapshot.
Load(p, j) ==
    /\ pc[p] = "idle"
    /\ snaps[j] # NoSnap
    /\ ~from_state_raises(snaps[j])
    /\ job' = [job EXCEPT ![p] = from_state(snaps[j])]
    /\ pc' = [pc EXCEPT ![p] = "ready"]
    /\ UNCHANGED <<alarms, snaps, held, call, trace>>

\* The object is forgotten (run_alarm_job returns, the handler ends).
Drop(p) ==
    /\ pc[p] = "ready"
    /\ call[p].runs >= 1
    /\ pc' = [pc EXCEPT ![p] = "idle"]
    /\ job' = [job EXCEPT ![p] = NoJob]
    /\ call' = [call EXCEPT ![p] = NoCall]
    /\ trace' = [trace EXCEPT ![p] = <<>>]
    /\ UNCHANGED <<alarms, snaps, held>>

\* The caller refreshes the membership of the job (refresh_items); a call
\* that raises changes nothing.
RefreshItems(p, include_groups) ==
    /\ pc[p] = "ready"
    /\ ~refresh_items_raises(job[p])
    /\ job' = [job EXCEPT ![p] = refresh_items(job[p], include_groups)]
    /\ UNCHANGED <<alarms, snaps, held, pc, call, trace>>

\* The caller hands a changed or cleared alarm to the job (update_item).
UpdateItem(p, a, is_clear) ==
    /\ pc[p] = "ready"
    /\ alarms[a].st # "X"
    /\ job' = [job EXCEPT ![p] = update_item(job[p], a, is_clear)]
    /\ UNCHANGED <<alarms, snaps, held, pc, call, trace>>

\* The alarm is cleared between two calls on the object of p.
ClearBetweenCalls(a, p) ==
    /\ pc[p] = "ready"
    /\ alarms[a].st = "A"
    /\ alarms' = [alarms EXCEPT ![a].st = "C"]
    /\ UNCHANGED <<snaps, held, pc, job, call, trace>>

\* run() without the test of lines 316-318.
run_returns_early_never(j) == FALSE

\* Lines 316-318: run() returns at once when the job has no item.
run_returns_early(j) == j.items = <<>>

\* run(): from the entry to the with statement (lines 315-338).  A job
\* without items returns at once; evaluating severity / is_end raises when
\* the leader cannot be resolved; otherwise the invocation reaches the lock.
\* The object of p is j when the call begins; action is the operator action
\* of the run_action that makes the call ("NONE" for a direct call).
RunEnter(p, j, action, now, force_end, ss) ==
    /\ trace' = [trace EXCEPT ![p] = <<>>]
    /\ call[p].runs < MaxRuns
    /\ job' = [job EXCEPT ![p] = j]
    /\ LET c == [NoCall EXCEPT !.runs = call[p].runs + 1, !.now = now,
                               !.action = action]
       IN  IF run_returns_early(j)
           THEN /\ call' = [call EXCEPT ![p] = c]
                /\ pc' = pc
           ELSE IF severity_raises(j)
           THEN /\ call' = [call EXCEPT ![p] = [c EXCEPT !.exc = TRUE]]
                /\ pc' = pc
           ELSE /\ call' = [call EXCEPT ![p] =
                    [c EXCEPT
                        !.force_end = force_end, !.save_state = ss,
                        !.changed = (severity(j) # j.base_severity),
                        !.is_end = (force_end \/ is_end(j)),
                        !.keys = get_lock_items(j),
                        !.blockedBy = {q \in Procs \ {p} :
                            \E h \in held : h[2] = q /\ h[1] \in get_lock_items(j)}]]
                /\ pc' = [pc EXCEPT ![p] = "lock"]
    /\ UNCHANGED <<alarms, snaps, held>>

RunBegin(p, now, force_end, ss) ==
    /\ pc[p] = "ready"
    /\ RunEnter(p, job[p], "NONE", now, force_end, ss)

\* The operator actions run_action is asked for.
AlarmActions == {"ACK", "LOG"}

\* AlarmJob.is_allowed_action (lines 702-704) returns True for every action.
is_allowed_action(j, action) == TRUE

\* AlarmJob.run_action: an action that is not allowed is logged and dropped;
\* otherwise a NEW one-time entry at the timestamp is appended and run() is
\* called with its defaults (save_state, no force_end).
RunAction(p, action, cfg, now) ==
    /\ pc[p] = "ready"
    /\ Len(job[p].actions) < MaxActions
    /\ IF ~is_allowed_action(job[p], action)
       THEN UNCHANGED vars
       ELSE RunEnter(p, [job[p] EXCEPT !.actions =
                            Append(@, ActionLog_from_request(cfg, now, 0))],
                     action, now, FALSE, TRUE)

\* self.lock.acquire(self.get_lock_items()): blocks until the keys are free.
Acquire(p) ==
    /\ pc[p] = "lock"
    /\ lock_free(call[p].keys, p)
    /\ held' = lock_enter(call[p].keys, p)
    /\ call' = [call EXCEPT ![p].acq = @ + 1,
                            ![p].blockedBy = {q \in @ : pc[q] = "ready"}]
    /\ pc' = [pc EXCEPT ![p] = "locked"]
    /\ UNCHANGED <<alarms, snaps, job, trace>>

\* check_escalated called before the with statement.
at_check_escalated_before_lock(p) == pc[p] = "lock"

\* Lines 336-341: check_escalated is the first statement of the body of the
\* with statement: the call is inside the lock.
at_check_escalated(p) == pc[p] = "locked"

\* Lines 341-343: check_escalated, then the sorted copy of the actions the
\* loop iterates over.
CheckEscalated(p) ==
    /\ at_check_escalated(p)
    /\ \E resolved \in BOOLEAN :
        /\ is_group(job[p]) \/ resolved
        /\ IF check_escalated_raises(job[p], resolved)
           THEN /\ call' = [call EXCEPT ![p].exc = TRUE]
                /\ pc' = [pc EXCEPT ![p] = "exit"]
                /\ job' = job
           ELSE /\ job' = [job EXCEPT ![p] = check_escalated(job[p])]
                /\ call' = [call EXCEPT ![p].sorted = sorted_actions(job[p].actions),
                                        ![p].pos = 1]
                /\ pc' = [pc EXCEPT ![p] =
                        IF job[p].actions = <<>> THEN "postloop" ELSE "loop"]
    /\ UNCHANGED <<alarms, snaps, held, trace>>

\* ------------------------------------------------------------- the loop
\* The loop without the test of lines 354-356 (timestamp > now).
loop_filter_no_delay(aa, now, isEnd, changed) ==
    IF aa.status = "FAILED" THEN "continue"
    ELSE IF aa.when # "ON_END" /\ isEnd THEN "continue"
    ELSE IF aa.status = "SUCCESS" /\ ~changed THEN "continue"
    ELSE "match"

\* The loop without the test of lines 349-350 (status FAILED).
loop_filter_retry_failed(aa, now, isEnd, changed) ==
    IF aa.when # "ON_END" /\ isEnd THEN "continue"
    ELSE IF aa.ts > now THEN "break"
    ELSE IF aa.status = "SUCCESS" /\ ~changed THEN "continue"
    ELSE "match"

\* The loop with line 358 reduced to "not changed": unchanged severity
\* skips every entry, done or not.
loop_filter_unchanged_skips(aa, now, isEnd, changed) ==
    IF aa.status = "FAILED" THEN "continue"
    ELSE IF aa.when # "ON_END" /\ isEnd THEN "continue"
    ELSE IF aa.ts > now THEN "break"
    ELSE IF ~changed THEN "continue"
    ELSE "match"

\* Lines 349-362: what the loop does with an entry before is_match is asked.
loop_filter(aa, now, isEnd, changed) ==
    IF aa.status = "FAILED" THEN "continue"
    ELSE IF aa.when # "ON_END" /\ isEnd THEN "continue"
    ELSE IF aa.ts > now THEN "break"
    ELSE IF aa.status = "SUCCESS" /\ ~changed THEN "continue"
    ELSE "match"

\* Lines 363-371 taken without the test: the entry is executed whatever
\* is_match answered.
on_match_bypass(m) == "execute"

\* Lines 363-371: what the loop does with the answer m of aa.is_match.
on_match(m) == IF m THEN "execute" ELSE "skip"

CurIdx(p) == call[p].sorted[call[p].pos]
CurEntry(p) == job[p].actions[CurIdx(p)]
CurFilter(p) ==
    loop_filter(CurEntry(p), call[p].now, call[p].is_end, call[p].changed)

\* The loop without the break of lines 404-406.
LoopNext_no_break(p, break, w) ==
    /\ pc' = [pc EXCEPT ![p] =
            IF call[p].pos = Len(call[p].sorted) THEN "postloop" ELSE "loop"]
    /\ call' = [call EXCEPT ![p].pos = @ + 1, ![p].writes = @ \cup w]

\* The loop goes on with the next entry of the sorted copy, or is over.
LoopNext(p, break, w) ==
    /\ pc' = [pc EXCEPT ![p] =
            IF break \/ call[p].pos = Len(call[p].sorted) THEN "postloop" ELSE "loop"]
    /\ call' = [call EXCEPT ![p].pos = IF break THEN @ ELSE @ + 1,
                            ![p].writes = @ \cup w]

\* continue: a FAILED entry, an entry of the other phase, a done entry.
LoopSkip(p) ==
    /\ pc[p] = "loop"
    /\ CurFilter(p) = "continue"
    /\ LoopNext(p, FALSE, {})
    /\ UNCHANGED <<alarms, snaps, held, job, trace>>

\* break: the entry is not due yet.
LoopBreak(p) ==
    /\ pc[p] = "loop"
    /\ CurFilter(p) = "break"
    /\ LoopNext(p, TRUE, {})
    /\ UNCHANGED <<alarms, snaps, held, job, trace>>

\* is_match answered False: the entry is set to SKIP.
LoopNoMatch(p) ==
    /\ pc[p] = "loop"
    /\ CurFilter(p) = "match"
    /\ on_match(FALSE) = "skip"
    /\ job' = [job EXCEPT ![p].actions[CurIdx(p)] =
            set_status(CurEntry(p), [status |-> "SKIP", error |-> "", document_id |-> 0])]
    /\ LoopNext(p, FALSE, {})
    /\ UNCHANGED <<alarms, snaps, held, trace>>

\* is_match answered m and the loop executes: the entry goes to the runner
\* (outcome o), repeat
\* and follow-on entries are appended, the result is recorded, and an entry
\* with stop_processing ends the loop.  An exception that is not caught
\* leaves the with block at once.
LoopExec(p, o) ==
    /\ pc[p] = "loop"
    /\ CurFilter(p) = "match"
    /\ \E m \in BOOLEAN :
        LET aa == CurEntry(p)
            r == action_result(o)
            more == appended_entries(job[p], aa, r)
            w == IF adds_stop_clear_watch(job[p], r, call[p].is_end)
                 THEN {Observe("add_watch", p)} ELSE {}
        IN  /\ on_match(m) = "execute"
            /\ Len(job[p].actions) + Len(more) <= MaxActions
            /\ trace' = [trace EXCEPT ![p] =
                         Append(@, [idx |-> CurIdx(p), pos |-> call[p].pos,
                                    pre |-> aa.status, raised |-> o.raised,
                                    matched |-> m, result |-> o.status,
                                    document_id |-> r.document_id])]
            /\ IF r.escapes
               THEN /\ call' = [call EXCEPT ![p].exc = TRUE]
                    /\ pc' = [pc EXCEPT ![p] = "exit"]
                    /\ job' = job
               ELSE /\ job' = [job EXCEPT ![p].actions =
                             [@ EXCEPT ![CurIdx(p)] = set_status(aa, r)] \o more]
                    /\ LoopNext(p, aa.stop_processing, w)
    /\ UNCHANGED <<alarms, snaps, held>>

\* Lines 407-408: the leader alarm, when its document says active, is saved
\* (the store may refuse the write, which raises inside the with block).
PostLoop(p, ok) ==
    /\ pc[p] = "postloop"
    /\ IF job[p].items[1].ast = "A"
       THEN call' = [call EXCEPT ![p].exc = ~ok,
                                 ![p].writes = @ \cup {Observe("safe_save", p)}]
       ELSE ok /\ call' = call
    /\ pc' = [pc EXCEPT ![p] = "exit"]
    /\ UNCHANGED <<alarms, snaps, held, job, trace>>

\* The with block is left: the lock is released; an exception raised inside
\* the block goes on to the caller of run().
Release(p) ==
    /\ pc[p] = "exit"
    /\ held' = with_exit(p, call[p].exc)
    /\ IF call[p].exc
       THEN /\ pc' = [pc EXCEPT ![p] = "ready"]
            /\ call' = [call EXCEPT ![p] = EndCall(call[p], TRUE, {})]
            /\ trace' = [trace EXCEPT ![p] = <<>>]
       ELSE /\ pc' = [pc EXCEPT ![p] = "unlocked"]
            /\ UNCHANGED <<call, trace>>
    /\ UNCHANGED <<alarms, snaps, job>>

\* Lines 411-414: sync_items_status, then save_state(is_completed=is_end)
\* when the caller asked for it.  save_state swallows a failing save (ok =
\* FALSE) and raises on a job it cannot serialize.
Finish(p, ok) ==
    /\ pc[p] = "unlocked"
    /\ LET j == sync_items_status(job[p])
           esc == job[p].profile # None /\ new_groups(job[p]) # {}
           saving == call[p].save_state /\ ~save_state_raises(j)
           w == (IF esc THEN {Observe("escalation_watch", p)} ELSE {})
                \cup (IF saving THEN {Observe("save_state", p)} ELSE {})
       IN  /\ job' = [job EXCEPT ![p] = j]
           /\ call' = [call EXCEPT ![p] =
                    EndCall(call[p],
                            \/ call[p].save_state /\ save_state_raises(j)
                            \/ saving /\ save_failure(ok),
                            w)]
           /\ IF saving /\ ok
              THEN snaps' = [snaps EXCEPT ![j.id] = save_state(j, call[p].is_end)]
              ELSE (saving \/ ok) /\ snaps' = snaps
    /\ pc' = [pc EXCEPT ![p] = "ready"]
    /\ trace' = [trace EXCEPT ![p] = <<>>]
    /\ UNCHANGED <<alarms, held>>

\* ------------------------------------------------------------------ Next
\* The steps of invocation p while it is inside run(): the runner answers
\* with one of outcomes, the stores answer the writes with one of oks.
RunStep(p, outcomes, oks) ==
    \/ Acquire(p)
    \/ CheckEscalated(p)
    \/ LoopSkip(p)
    \/ LoopBreak(p)
    \/ LoopNoMatch(p)
    \/ \E o \in outcomes : LoopExec(p, o)
    \/ \E ok \in oks : PostLoop(p, ok)
    \/ Release(p)
    \/ \E ok \in oks : Finish(p, ok)

\* The runner raises or succeeds without follow-on action and document.
RaiseOrSuccess ==
    {o \in RunnerOutcomes :
        o.action = NoAction /\ o.document_id = 0 /\ o.error # "err"}

\* Action configs of the requests of Spec: stop_processing is set on
\* immediate steps without delay only.
LoopConfigs ==
    {c \in ActionConfigs : c.stop => (c.delay = 0 /\ c.when = "IMMEDIATE")}

\* The action loop: one invocation, one alarm whose severity changes, jobs
\* built from requests of up to MaxReqActions configs, runs at every now
\* with and without force_end, nothing persisted.
Next ==
    \/ ChangeSeverity(1, {1})
    \/ \E req \in Requests({1}, LoopConfigs, MaxReqActions, {"CR"}, {0}) :
            FromRequest(1, req, 1)
    \/ Drop(1)
    \/ \E now \in 0..MaxTs, fe \in BOOLEAN : RunBegin(1, now, fe, FALSE)
    \/ RunStep(1, RaiseOrSuccess, {TRUE})

Spec == Init /\ [][Next]_vars

\* The runner succeeds without follow-on action and document.
PlainSuccess == {o \in RaiseOrSuccess : ~o.raised}

\* One delayed immediate step.
DelayedStep == {[delay |-> 1, when |-> "IMMEDIATE", stop |-> FALSE]}

\* The alarms invocation p builds jobs for.
AlarmsOf(p) == IF p = 1 THEN {1} ELSE AlarmIds

\* Concurrent invocations: invocation p builds job p for one of its alarms or
\* loads a persisted job, runs the object once with save_state and forgets it.
NextConc ==
    \E p \in Procs :
        \/ \E req \in Requests({p}, DelayedStep, 1, {"CR"}, {0}), a \in AlarmsOf(p) :
                /\ Len(req.actions) = 1
                /\ FromRequest(p, req, a)
        \/ \E j \in JobIds : Load(p, j)
        \/ Drop(p)
        \/ \E now \in 0..MaxTs :
                /\ call[p].runs = 0
                /\ RunBegin(p, now, FALSE, TRUE)
        \/ RunStep(p, PlainSuccess, {TRUE})

SpecConc == Init /\ [][NextConc]_vars

\* The runner succeeds, with or without a tracking document.
SuccessWithDoc == {o \in RunnerOutcomes : ~o.raised /\ o.status = "SUCCESS" /\ o.action = NoAction}

\* One immediate step with stop_processing.
ImmediateStop == {[delay |-> 0, when |-> "IMMEDIATE", stop |-> TRUE]}

\* One immediate step.
ImmediateStep == {[delay |-> 0, when |-> "IMMEDIATE", stop |-> FALSE]}

\* The stores: one invocation, an alarm that is cleared and then deleted,
\* jobs of one step (due at once or later) that end on clear or on ticket,
\* run at the start time of their request, persisted and loaded again,
\* writes to the alarm store and to the snapshot store that succeed or fail.
NextStore ==
    \/ ClearAlarm(1, {1})
    \/ PurgeAlarm(1, {1})
    \/ \E req \in Requests({1}, ImmediateStep \cup DelayedStep, 1, {"CR", "CT"}, {0}) :
            FromRequest(1, req, 1)
    \/ Load(1, 1)
    \/ Drop(1)
    \/ \E fe \in BOOLEAN : RunBegin(1, 0, fe, TRUE)
    \/ RunStep(1, SuccessWithDoc, BOOLEAN)

SpecStore == Init /\ [][NextStore]_vars

\* Reruns: one invocation, an alarm that does not change, every run() made
\* at the same now (the start time of the requests) without force_end; jobs
\* are built from requests or loaded from the snapshot of an earlier run.
NextRerun ==
    \/ \E req \in Requests({1}, LoopConfigs, MaxReqActions, {"CR"}, {0}) :
            FromRequest(1, req, 1)
    \/ Load(1, 1)
    \/ Drop(1)
    \/ RunBegin(1, 0, FALSE, TRUE)
    \/ RunStep(1, RaiseOrSuccess, {TRUE})

SpecRerun == Init /\ [][NextRerun]_vars

\* Repeats: one invocation, an alarm that does not change, jobs of one step
\* with max_repeats up to MaxTs and a repeat delay of 1; the n-th run() of an
\* object is made at now = n - 1, one repeat delay after the one before; the
\* runner raises, fails or succeeds, with or without follow-on action.
NextRepeat ==
    \/ \E req \in Requests({1}, ImmediateStep \cup DelayedStep, 1, {"CR"}, 0..MaxTs) :
            FromRequest(1, req, 1)
    \/ Drop(1)
    \/ call[1].runs <= MaxTs /\ RunBegin(1, call[1].runs, FALSE, FALSE)
    \/ RunStep(1, RunnerOutcomes, {TRUE})

SpecRepeat == Init /\ [][NextRepeat]_vars

\* The documents of alarm a over the given roots, group types, service
\* variables, affected services and groups.
AlarmDocs(a, roots, gts, svcs, affs, grps) ==
    {[PlainAlarm(a) EXCEPT !.root = t[1], !.group_type = t[2], !.service = t[3],
                           !.affected_services = t[4], !.groups = t[5]] :
        t \in roots \X gts \X svcs \X affs \X grps}

\* The state before any job is built, with the given alarm documents.
InitWith(docs1, docs2) ==
    /\ \E d1 \in docs1, d2 \in docs2 :
            alarms = [a \in AlarmIds |-> IF a = 1 THEN d1 ELSE d2]
    /\ snaps = [j \in JobIds |-> NoSnap]
    /\ held = {}
    /\ pc = [p \in Procs |-> "idle"]
    /\ job = [p \in Procs |-> NoJob]
    /\ call = [p \in Procs |-> NoCall]
    /\ trace = [p \in Procs |-> <<>>]

\* Alarm 1 is a root alarm or a consequence of alarm 2, with or without
\* group; alarm 2 is a root alarm or a consequence of alarm 1, with or without
\* the same group.
InitItems ==
    InitWith(AlarmDocs(1, {None, 2}, {"NONE"}, {None}, {{}}, {{}, GroupKeys}),
             AlarmDocs(2, {None, 1}, {"NONE"}, {None}, {{}}, {{}, GroupKeys}))

\* Membership: one invocation builds a job for alarm 1 under policy ROOT or
\* ROOT_FIRST and any end condition, with at most one step; the caller
\* refreshes the items, hands alarms to update_item and runs the job at
\* now = 0; alarm 2 is cleared between the calls.
NextItems ==
    \/ \E req \in Requests({1}, ImmediateStep \cup DelayedStep, 1, EndConditions, {0}),
          pol \in {"ROOT", "ROOT_FIRST"} :
            FromRequest(1, [req EXCEPT !.item_policy = pol], 1)
    \/ \E ig \in BOOLEAN : RefreshItems(1, ig)
    \/ \E a \in AlarmIds, is_clear \in BOOLEAN : UpdateItem(1, a, is_clear)
    \/ ClearBetweenCalls(2, 1)
    \/ Drop(1)
    \/ RunBegin(1, 0, FALSE, TRUE)
    \/ RunStep(1, PlainSuccess, {TRUE})

SpecItems == InitItems /\ [][NextItems]_vars

\* Alarm 1 is a root alarm or a consequence of alarm 2, of any group type,
\* with or without service variable, affected service and group; alarm 2 is
\* a root alarm or a consequence of alarm 1, with or without affected
\* service, outside any group, in the group of alarm 1 or in the group alarm
\* 1 stands for.
InitLeader ==
    InitWith(AlarmDocs(1, {None, 2}, GroupTypes, {None, 1}, {{}, {2}}, {{}, GroupKeys}),
             AlarmDocs(2, {None, 1}, {"NONE"}, {None}, {{}, {1}},
                       {{}, GroupKeys, {reference_of(1)}}))

\* Leader resolution: a job without step is built for alarm 1 under any
\* policy and its membership is refreshed.
NextLeader ==
    \/ \E req \in Requests({1}, {}, 0, {"CR"}, {0}), pol \in EscalationPolicies :
            FromRequest(1, [req EXCEPT !.item_policy = pol], 1)
    \/ \E ig \in BOOLEAN : RefreshItems(1, ig)

SpecLeader == InitLeader /\ [][NextLeader]_vars

\* One delayed step for the end of the job.
DelayedOnEnd == {[delay |-> 1, when |-> "ON_END", stop |-> FALSE]}

\* Steps due at once (with and without stop_processing) or later, and a
\* delayed step for the end of the job.
PersistConfigs == ImmediateStep \cup ImmediateStop \cup DelayedStep \cup DelayedOnEnd

\* Persistence: one invocation, an alarm that is cleared, jobs of up to
\* MaxReqActions steps built from requests or loaded from the snapshot of an
\* earlier run, run at every now and saved; the stores take the writes or
\* fail.
NextPersist ==
    \/ ClearAlarm(1, {1})
    \/ \E req \in Requests({1}, PersistConfigs, MaxReqActions, {"CR"}, {0}) :
            FromRequest(1, req, 1)
    \/ Load(1, 1)
    \/ Drop(1)
    \/ \E now \in 0..MaxTs : RunBegin(1, now, FALSE, TRUE)
    \/ RunStep(1, RaiseOrSuccess, BOOLEAN)

SpecPersist == Init /\ [][NextPersist]_vars

\* ------------------------------------------------------------ properties
\* Invocation p is past check_escalated of a run(): trace[p] and the locals
\* of the loop describe that run.
InLoop(p) == pc[p] \in {"loop", "postloop", "exit", "unlocked"}

\* The entry at position k of the sorted copy run() iterates over.
SortedEntry(p, k) == job[p].actions[call[p].sorted[k]]

\* The entry behind record m of trace[p].
Ran(p, m) == job[p].actions[trace[p][m].idx]

\* C5: within one run() the entries handed to the action runner are in
\* non-decreasing timestamp order, and entries with equal timestamps are
\* handed over in the order of their insertion into actions.
C5_RunnerOrder ==
    \A p \in Procs : \A m, n \in 1..Len(trace[p]) :
        m < n =>
            \/ Ran(p, m).ts < Ran(p, n).ts
            \/ /\ Ran(p, m).ts = Ran(p, n).ts
               /\ trace[p][m].idx < trace[p][n].idx

\* A run() executed both entries of a list inserted out of timestamp order.
C5_Witness ==
    \E p \in Procs :
        /\ pc[p] = "postloop"
        /\ Len(trace[p]) = 2
        /\ trace[p][1].idx = 2 /\ trace[p][2].idx = 1
        /\ job[p].actions[2].ts < job[p].actions[1].ts

\* An entry run() would act upon: not FAILED and of the phase of the run.
Eligible(p, aa) ==
    aa.status # "FAILED" /\ ~(aa.when # "ON_END" /\ call[p].is_end)

\* What run() has executed is due, and nothing was executed after the loop
\* came to an eligible entry that is not due.
C6_Inv ==
    \A p \in Procs : InLoop(p) =>
        \A m \in 1..Len(trace[p]) :
            /\ Ran(p, m).ts <= call[p].now
            /\ \A k \in 1..(trace[p][m].pos - 1) :
                    ~(Eligible(p, SortedEntry(p, k)) /\ SortedEntry(p, k).ts > call[p].now)

\* No step of a run() changes an entry that is not due.
C6_Step ==
    \A p \in Procs :
        (pc[p] \notin {"idle", "ready"} /\ job'[p].id = job[p].id) =>
            \A i \in 1..Len(job[p].actions) :
                job[p].actions[i].ts > call[p].now =>
                    job'[p].actions[i] = job[p].actions[i]

\* C6: in run(now) no entry with timestamp > now is executed or changed, and
\* no entry is executed once the loop has reached an eligible entry with
\* timestamp > now.
C6_NotDue == []C6_Inv /\ [][C6_Step]_vars

\* The loop executed an entry and then stopped at an entry that is not due.
C6_Witness ==
    \E p \in Procs :
        /\ pc[p] = "postloop"
        /\ trace[p] # <<>>
        /\ call[p].pos <= Len(call[p].sorted)
        /\ SortedEntry(p, call[p].pos).ts > call[p].now
        /\ SortedEntry(p, call[p].pos).status = "NEW"

\* No entry handed to the runner was FAILED before.
C8_Inv ==
    \A p \in Procs : \A m \in 1..Len(trace[p]) : trace[p][m].pre # "FAILED"

\* No step changes a FAILED entry of the job.
C8_Step ==
    \A p \in Procs :
        (job[p].id # None /\ job'[p].id = job[p].id) =>
            \A i \in 1..Len(job[p].actions) :
                job[p].actions[i].status = "FAILED" =>
                    job'[p].actions[i] = job[p].actions[i]

\* C8: an entry whose status is FAILED is never handed to the action runner
\* again and never changes, whatever now, the severity and force_end of the
\* later runs.
C8_FailedFinal == []C8_Inv /\ [][C8_Step]_vars

\* A second run(), made after the severity changed, went past a due entry
\* that failed in the first run, and executed another entry.
C8_Witness ==
    \E p \in Procs :
        /\ pc[p] = "postloop"
        /\ call[p].runs = 2
        /\ call[p].changed
        /\ trace[p] # <<>>
        /\ \E i \in 1..Len(job[p].actions) :
                /\ job[p].actions[i].status = "FAILED"
                /\ job[p].actions[i].ts <= call[p].now
                /\ Eligible(p, [job[p].actions[i] EXCEPT !.status = "NEW"])
                /\ \A m \in 1..Len(trace[p]) : trace[p][m].idx # i

\* Record m of trace[p]: the runner raised on an entry without stop_processing.
RaisedOn(p, m) == trace[p][m].raised /\ ~Ran(p, m).stop_processing

\* An entry with stop_processing was executed at a position of the sorted
\* copy strictly between positions k and q.
StoppedBetween(p, k, q) ==
    \E n \in 1..Len(trace[p]) :
        /\ trace[p][n].pos > k /\ trace[p][n].pos < q
        /\ Ran(p, n).stop_processing

\* C9: when the runner raises on an entry without stop_processing, the entry
\* becomes FAILED with the exception text, run() does not raise, and the loop
\* goes on: by its end every due entry behind the failed one has been
\* processed, unless an entry with stop_processing ended the loop before it.
C9_RaiseIsolated ==
    \A p \in Procs : \A m \in 1..Len(trace[p]) :
        RaisedOn(p, m) =>
            /\ Ran(p, m).status = "FAILED"
            /\ Ran(p, m).error = "exc"
            /\ ~call[p].exc
            /\ call[p].pos > trace[p][m].pos
            /\ pc[p] \in {"postloop", "exit", "unlocked"} =>
                    \A q \in (trace[p][m].pos + 1)..Len(call[p].sorted) :
                        (/\ SortedEntry(p, q).status = "NEW"
                         /\ SortedEntry(p, q).ts <= call[p].now
                         /\ Eligible(p, SortedEntry(p, q)))
                            => StoppedBetween(p, trace[p][m].pos, q)

\* The runner raised on the first entry of a run() and the second entry was
\* executed after it.
C9_Witness ==
    \E p \in Procs :
        /\ pc[p] = "postloop"
        /\ Len(trace[p]) = 2
        /\ RaisedOn(p, 1)
        /\ ~trace[p][2].raised
        /\ Ran(p, 2).status = "SUCCESS"

\* C10: an ON_END entry is executed only in a run() whose end-phase is true,
\* and any other entry only in a run() whose end-phase is false.
C10_PhaseMatch ==
    \A p \in Procs : \A m \in 1..Len(trace[p]) :
        (Ran(p, m).when = "ON_END") <=> call[p].is_end

\* Invocations p and q hold objects loaded from the same persisted snapshot.
SameSnapshot(p, q) ==
    /\ job[p].id # None /\ job[q].id = job[p].id
    /\ job[p].loaded /\ job[q].loaded
    /\ job[p].built = job[q].built

\* Entry i, NEW in the snapshot the object of p was loaded from, was handed
\* to the runner by the run() that p has made on the object and returned from
\* (an entry leaves NEW for SUCCESS or FAILED through the runner only).
HasRunNew(p, i) ==
    /\ pc[p] = "ready" /\ call[p].runs = 1
    /\ job[p].built[i].status = "NEW"
    /\ job[p].actions[i].status \in {"SUCCESS", "FAILED"}

\* Entry i, NEW in the snapshot, is handed to the runner by the run() of q
\* in progress.
RunsNew(q, i) ==
    /\ InLoop(q)
    /\ job[q].built[i].status = "NEW"
    /\ \E m \in 1..Len(trace[q]) : trace[q][m].idx = i /\ trace[q][m].pre = "NEW"

\* C1: when two objects loaded from the same snapshot are run concurrently,
\* the second waiting for the lock until the run() of the first has returned,
\* an entry that is NEW in the snapshot is handed to the action runner by at
\* most one of them.
C1_AtMostOnce ==
    \A p, q \in Procs :
        (p # q /\ SameSnapshot(p, q) /\ InLoop(q) /\ p \in call[q].blockedBy) =>
            \A i \in 1..Len(job[q].built) : ~(HasRunNew(p, i) /\ RunsNew(q, i))

\* Invocation p is between the acquisition and the release of its lock.
InSection(p) == pc[p] \in {"locked", "loop", "postloop", "exit"}

\* The jobs of p and q have an item alarm or a group key in common.
SharesKey(p, q) ==
    \/ \E k \in 1..Len(job[p].items), m \in 1..Len(job[q].items) :
            job[p].items[k].alarm = job[q].items[m].alarm
    \/ job[p].groups \cap job[q].groups # {}

C3_WritesLocked ==
    \A p \in Procs : \A w \in call[p].writes : w.locked

\* C4: a run() on a job with at least one item acquires the lock exactly
\* once, and holds none of its keys once it has returned or raised.
C4_LockOnce ==
    \A p \in Procs :
        (pc[p] = "ready" /\ call[p].runs >= 1 /\ job[p].items # <<>>) =>
            call[p].acq = 1 /\ ~holds_lock(p)

\* In the loop of a second or later run() that found every entry SUCCESS, no
\* step hands an entry to the runner, appends an entry or changes one.
C7_Step ==
    \A p \in Procs :
        (/\ pc[p] = "loop"
         /\ call[p].runs >= 2
         /\ \A i \in 1..Len(job[p].actions) : job[p].actions[i].status = "SUCCESS")
            => (job'[p].actions = job[p].actions /\ trace'[p] = trace[p])

\* C7: a run() that starts with every entry SUCCESS, after a run() made at
\* the same now on an alarm whose severity did not change, hands nothing to
\* the runner, appends nothing and changes no entry.
C7_IdempotentRerun == [][C7_Step]_vars

\* Every entry handed to the runner had is_match answer true in that call.
C11_Inv ==
    \A p \in Procs : \A m \in 1..Len(trace[p]) : trace[p][m].matched

\* A step on an entry that passed the filters either hands it to the runner
\* or (is_match answered false) sets it to SKIP, appends nothing and goes on
\* with the next entry of the sorted copy.
C11_Step ==
    \A p \in Procs :
        (/\ pc[p] = "loop" /\ CurFilter(p) = "match"
         /\ call'[p] # call[p] /\ trace'[p] = trace[p]) =>
            /\ job'[p].actions =
                    [job[p].actions EXCEPT ![CurIdx(p)].status = "SKIP",
                                           ![CurIdx(p)].error = ""]
            /\ call'[p].pos = call[p].pos + 1
            /\ pc'[p] = IF call[p].pos < Len(call[p].sorted) THEN "loop" ELSE "postloop"

\* C11: the runner is invoked for an entry only after is_match returned true
\* in the same call; when it returns false the entry becomes SKIP, nothing is
\* appended for it, and the loop continues with the next entry.
C11_MatchGate == []C11_Inv /\ [][C11_Step]_vars

\* is_match answered false for the first entry of a run(), which is SKIP,
\* and the second entry was executed after it.
C11_Witness ==
    \E p \in Procs :
        /\ pc[p] = "postloop"
        /\ Len(call[p].sorted) = 2
        /\ SortedEntry(p, 1).status = "SKIP"
        /\ Len(trace[p]) = 1
        /\ trace[p][1].pos = 2
        /\ call[p].runs = 1

\* C12 as stated: behind a due entry with stop_processing, no entry of the
\* sorted copy is executed in the same call.
C12_StopDue ==
    \A p \in Procs : InLoop(p) =>
        \A k \in 1..Len(call[p].sorted) :
            (SortedEntry(p, k).stop_processing /\ SortedEntry(p, k).ts <= call[p].now) =>
                \A m \in 1..Len(trace[p]) : trace[p][m].pos <= k

\* C12, amended: once an entry with stop_processing has been executed, no
\* further entry is executed in the same call: its record is the last of the
\* call and the loop is over.
C12_StopExecuted ==
    \A p \in Procs : \A m \in 1..Len(trace[p]) :
        Ran(p, m).stop_processing =>
            m = Len(trace[p]) /\ pc[p] # "loop"

\* An entry with stop_processing was executed and the loop ended in front of
\* a NEW entry that is due.
C12_Witness ==
    \E p \in Procs :
        /\ pc[p] = "postloop"
        /\ Len(trace[p]) = 1
        /\ Ran(p, 1).stop_processing
        /\ call[p].pos < Len(call[p].sorted)
        /\ SortedEntry(p, call[p].pos + 1).status = "NEW"
        /\ SortedEntry(p, call[p].pos + 1).ts <= call[p].now
        /\ Eligible(p, SortedEntry(p, call[p].pos + 1))

\* The entries a step appended to the actions of p.
Appended(p) ==
    [k \in 1..(Len(job'[p].actions) - Len(job[p].actions)) |->
        job'[p].actions[Len(job[p].actions) + k]]

\* A step appends a repeat entry (an entry with repeat_num > 0) only when it
\* executes an entry with repeat_num < max_repeats and the result is SUCCESS;
\* the repeat carries repeat_num + 1 and timestamp + repeat_delay.
C13_Step ==
    \A p \in Procs :
        (job[p].id # None /\ job'[p].id = job[p].id) =>
            \A k \in 1..Len(Appended(p)) :
                Appended(p)[k].repeat_num > 0 =>
                    /\ pc[p] = "loop" /\ Len(trace'[p]) = Len(trace[p]) + 1
                    /\ CurEntry(p).repeat_num < job[p].max_repeats
                    /\ job'[p].actions[CurIdx(p)].status = "SUCCESS"
                    /\ Appended(p)[k].repeat_num = CurEntry(p).repeat_num + 1
                    /\ Appended(p)[k].ts = CurEntry(p).ts + job[p].repeat_delay

\* C13: a repeat entry is appended only for an executed entry whose result is
\* SUCCESS and whose repeat_num is below max_repeats, with repeat_num + 1 and
\* timestamp + repeat_delay; an entry with repeat_num = max_repeats spawns no
\* repeat.
C13_RepeatBound == [][C13_Step]_vars

\* A repeat entry with repeat_num = max_repeats succeeded and nothing was
\* appended behind it.
C13_Witness ==
    \E p \in Procs :
        /\ pc[p] = "postloop"
        /\ job[p].max_repeats = 1
        /\ Len(trace[p]) = 1
        /\ Ran(p, 1).repeat_num = 1
        /\ Ran(p, 1).ts = 1
        /\ Ran(p, 1).status = "SUCCESS"
        /\ trace[p][1].idx = Len(job[p].actions)

\* The indices of the repeat entries of p with the given repeat_num.
RepeatsOf(p, n) ==
    {k \in 1..Len(job[p].actions) : job[p].actions[k].repeat_num = n}

\* p made max_repeats + 1 cycles on a job of one immediate step, one repeat
\* delay apart, the alarm's severity never changed, and no execution failed,
\* was skipped or returned a follow-on action.
RepeatCycles(p) ==
    /\ job[p].id # None /\ pc[p] = "ready"
    /\ job[p].max_repeats >= 1
    /\ call[p].runs = job[p].max_repeats + 1
    /\ Len(job[p].built) = 1 /\ job[p].built[1].ts = 0
    /\ Cardinality(RepeatsOf(p, 0)) = 1
    /\ \A k \in 1..Len(job[p].actions) : job[p].actions[k].status \in {"NEW", "SUCCESS"}

\* C14: with max_repeats = N, an action that always succeeds and N + 1
\* consecutive cycles spaced repeat_delay apart on an alarm of unchanged
\* severity, there is exactly one repeat entry for each repeat_num in 1..N
\* and no other.
C14_ExactRepeats ==
    \A p \in Procs : RepeatCycles(p) =>
        /\ \A n \in 1..job[p].max_repeats : Cardinality(RepeatsOf(p, n)) = 1
        /\ Len(job[p].actions) = job[p].max_repeats + 1

\* The decision table of the end conditions.
EndTable(j) ==
    /\ j.end_condition \in {"CR", "CT"} =>
            (is_end(j) <=> (j.items[1].status \in {"REMOVED", "ARCHIVED"}
                            \/ j.items[1].ast = "C"))
    /\ j.end_condition = "CA" =>
            (is_end(j) <=> \A k \in 1..Len(j.items) :
                            j.items[k].status \in {"REMOVED", "ARCHIVED"})
    /\ j.end_condition = "M" => ~is_end(j)

C16_Inv ==
    \A p \in Procs :
        (job[p].id # None /\ job[p].items # <<>>) =>
            /\ \A k \in 2..Len(job[p].items) :
                    job[p].items[k].alarm # job[p].items[1].alarm
            /\ (~severity_raises(job[p]) /\ get_leader(job[p]).leader # None) =>
                    job[p].items[1].alarm = get_leader(job[p]).leader

\* No call on the object moves another alarm to the head of the list.
C16_Step ==
    \A p \in Procs :
        (job[p].id # None /\ job'[p].id = job[p].id
         /\ job[p].items # <<>> /\ job'[p].items # <<>>) =>
            job'[p].items[1].alarm = job[p].items[1].alarm

\* C16: through from_request, refresh_items, update_item and run(), a
\* non-empty item list starts with the item of the job's leader alarm, and
\* the leader stands at no other index.
C16_LeaderFirst == []C16_Inv /\ [][C16_Step]_vars

\* refresh_items put the consequence behind the leader.
C16_Witness ==
    \E p \in Procs :
        /\ pc[p] = "ready"
        /\ Len(job[p].items) = 2
        /\ job[p].items[1].alarm = 1 /\ get_leader(job[p]).leader = 1
        /\ job[p].items[2].alarm = 2 /\ job[p].items[2].status = "NEW"
        /\ call[p].runs = 1

\* What get_leader is to return for alarm a under the policy.
LeaderTable(a, policy) ==
    LET d == alarms[a]
    IN  IF d.root # None
        THEN [leader |-> None, groups |-> {}, services |-> {}]
        ELSE [leader |-> a,
              services |-> IF d.group_type = "SERVICE" /\ d.service # None
                           THEN {d.service} ELSE d.affected_services,
              groups |-> CASE policy = "ROOT" -> {}
                           [] policy # "ROOT" /\ d.group_type \in {"SERVICE", "GROUP"} ->
                                {d.reference}
                           [] policy \in {"ALWAYS_FIRST", "ROOT_FIRST"}
                              /\ d.group_type \notin {"SERVICE", "GROUP"}
                              /\ d.groups # {} -> d.groups
                           [] OTHER -> {}]

\* get_leader answers as the table says.
C17_Inv ==
    \A p \in Procs :
        (job[p].id # None /\ ~severity_raises(job[p])) =>
            get_leader(job[p]) = LeaderTable(job[p].items[1].alarm, job[p].items_policy)

\* refresh_items takes the answer over: no leader, no item; otherwise the
\* leader's item first and, with include_groups, the groups of the answer.
C17_Step ==
    \A p \in Procs :
        (job[p].id # None /\ job'[p] # job[p] /\ job'[p].id = job[p].id
         /\ pc[p] = "ready" /\ pc'[p] = "ready" /\ ~severity_raises(job[p])) =>
            LET t == LeaderTable(job[p].items[1].alarm, job[p].items_policy)
            IN  /\ (t.leader = None) <=> (job'[p].items = <<>>)
                /\ t.leader # None =>
                        /\ job'[p].items[1].alarm = t.leader
                        /\ t.services \subseteq job'[p].services
                        /\ job'[p].groups \in {job[p].groups, t.groups}

\* C17: get_leader returns (no leader, no groups, no services) for an alarm
\* with root set; otherwise the alarm, the service variable (group type
\* SERVICE, variable present) or the affected services, and the groups:
\* none under ROOT, the reference for group types SERVICE and GROUP under
\* any other policy, the alarm's groups under ALWAYS_FIRST and ROOT_FIRST,
\* none in every other case.
C17_LeaderTable == []C17_Inv /\ [][C17_Step]_vars

\* A refreshed job of a service alarm under ALWAYS: the reference is the
\* group, the service variable the service.
C17_Witness ==
    \E p \in Procs :
        /\ job[p].id # None
        /\ job[p].items_policy = "ALWAYS"
        /\ alarms[1].group_type = "SERVICE" /\ alarms[1].service = 1
        /\ alarms[1].affected_services = {2} /\ alarms[1].groups = GroupKeys
        /\ job[p].groups = {reference_of(1)}
        /\ job[p].services = {1}

\* A refreshed job of a consequence: the list is empty.
C17_WitnessRoot ==
    \E p \in Procs :
        job[p].id # None /\ job[p].items = <<>> /\ alarms[1].root # None

\* A job without items is never inside run().
C18_Inv ==
    \A p \in Procs :
        (job[p].id # None /\ job[p].items = <<>>) => pc[p] = "ready"

\* run() on a job without items returns without a trace: no key taken, no
\* runner call, no write, no snapshot, nothing raised, the job as it was.
C18_Step ==
    \A p \in Procs :
        (pc[p] = "ready" /\ job[p].id # None /\ job[p].items = <<>>
         /\ call'[p].runs = call[p].runs + 1) =>
            /\ pc'[p] = "ready"
            /\ job' = job /\ held' = held /\ snaps' = snaps /\ alarms' = alarms
            /\ trace'[p] = <<>>
            /\ call'[p].acq = 0 /\ call'[p].writes = {} /\ ~call'[p].exc

\* C18: run() on a job with zero items is a no-op: no lock, no action, no
\* change of an item or an entry, no snapshot.
C18_EmptyNoOp == []C18_Inv /\ [][C18_Step]_vars

\* run() was called on a job that lost its items and has a step to take.
C18_Witness ==
    \E p \in Procs :
        /\ pc[p] = "ready" /\ job[p].id # None
        /\ job[p].items = <<>>
        /\ call[p].runs >= 1
        /\ Len(job[p].actions) = 1 /\ job[p].actions[1].status = "NEW"
        /\ job[p].actions[1].ts = 0
        /\ snaps[job[p].id] = NoSnap

\* The alarms refresh_items computes as the members of job j.
Membership(j) ==
    LET lead == get_leader(j)
        ys == iter_escalation_alarms(j, lead.leader, lead.groups)
    IN  {ys[k] : k \in 1..Len(ys)}

\* The step of p is a call of refresh_items that resolved a leader.
Refreshed(p) ==
    /\ pc[p] = "ready" /\ pc'[p] = "ready"
    /\ job[p].id # None /\ ~refresh_items_raises(job[p])
    /\ get_leader(job[p]).leader # None
    /\ \E ig \in BOOLEAN : job'[p] = refresh_items(job[p], ig)

\* After refresh_items every alarm tracked behind the leader still has an
\* item, and the item of an alarm that left the membership is REMOVED.
C19_Step ==
    \A p \in Procs : Refreshed(p) =>
        \A k \in 2..Len(job[p].items) :
            LET a == job[p].items[k].alarm
            IN  /\ \E m \in 2..Len(job'[p].items) : job'[p].items[m].alarm = a
                /\ a \notin Membership(job[p]) =>
                        \E m \in 2..Len(job'[p].items) :
                            /\ job'[p].items[m].alarm = a
                            /\ job'[p].items[m].status = "REMOVED"

\* C19: when refresh_items resolves a leader, every non-leader alarm the job
\* tracked and that is absent from the new membership stays in the items
\* with status REMOVED; no tracked non-leader item disappears.
C19_RemovedKept == [][C19_Step]_vars

\* Alarm 2 was processed as a member, was cleared and is kept as REMOVED
\* with the document the job had of it.
C19_Witness ==
    \E p \in Procs :
        /\ pc[p] = "ready" /\ job[p].id # None
        /\ call[p].runs >= 1
        /\ alarms[2].st = "C"
        /\ Len(job[p].items) = 2
        /\ job[p].items[1].status = "NEW"
        /\ job[p].items[2] = MkItem(2, "A", 1, "REMOVED")
        /\ 2 \notin Membership(job[p])

\* The entries that are NEW and not ON_END.
Pending(j) ==
    {k \in 1..Len(j.actions) :
        j.actions[k].status = "NEW" /\ j.actions[k].when # "ON_END"}

\* The earliest timestamp of the pending entries.
EarliestPending(j) ==
    LET k == CHOOSE x \in Pending(j) :
                \A y \in Pending(j) : j.actions[x].ts <= j.actions[y].ts
    IN  j.actions[k].ts

\* run() has returned and run_alarm_job asks the job for its next time.
AfterRun(p) == pc[p] = "ready" /\ job[p].id # None /\ call[p].runs >= 1

\* C20: get_next_ts returns null exactly when no entry is NEW with when
\* different from ON_END, and otherwise the earliest timestamp of those
\* entries.
C20_EarliestTs ==
    \A p \in Procs : AfterRun(p) =>
        /\ (get_next_ts(job[p]) = NoTs) <=> (Pending(job[p]) = {})
        /\ Pending(job[p]) # {} => get_next_ts(job[p]) = EarliestPending(job[p])

\* get_next_ts returns null exactly when no entry is NEW with when different
\* from ON_END, and otherwise the second that follows the earliest timestamp
\* of those entries: the timestamp plus one second, cut to the whole second.
C20_NextSecond ==
    \A p \in Procs : AfterRun(p) =>
        /\ (get_next_ts(job[p]) = NoTs) <=> (Pending(job[p]) = {})
        /\ Pending(job[p]) # {} =>
                /\ get_next_ts(job[p]) =
                        replace_microsecond_0(EarliestPending(job[p]) + TicksPerSecond)
                /\ get_next_ts(job[p]) > EarliestPending(job[p])

\* After a run at tick 0, an ON_END entry and a step wait, both of tick 1:
\* the next time is tick 2.
C20_Witness ==
    \E p \in Procs :
        /\ AfterRun(p)
        /\ Len(job[p].actions) = 2
        /\ \A k \in 1..2 : job[p].actions[k].status = "NEW"
        /\ job[p].actions[1].when = "ON_END" /\ job[p].actions[1].ts = 1
        /\ job[p].actions[2].when = "IMMEDIATE" /\ job[p].actions[2].ts = 1
        /\ get_next_ts(job[p]) = 2

\* The entry is a step of the running phase that is due and waits.
DueStep(e, now) == e.status = "NEW" /\ e.when = "IMMEDIATE" /\ e.ts <= now

\* Inside a run() of a job that is not ended: a due NEW step the loop stands
\* at goes to is_match; an executed entry was executed once and carries the
\* runner's result; when the loop is over, a due step of the sorted copy is
\* still NEW only behind an executed stop_processing entry.
C21_Inv ==
    \A p \in Procs :
        (job[p].id # None /\ ~call[p].is_end) =>
            /\ (pc[p] = "loop" /\ DueStep(CurEntry(p), call[p].now)) =>
                    CurFilter(p) = "match"
            /\ \A m \in 1..Len(trace[p]) :
                    /\ Ran(p, m).status = trace[p][m].result
                    /\ trace[p][m].raised => Ran(p, m).status = "FAILED"
                    /\ \A n \in 1..Len(trace[p]) :
                            trace[p][n].idx = trace[p][m].idx => n = m
            /\ pc[p] = "postloop" =>
                    \A k \in 1..Len(call[p].sorted) :
                        DueStep(SortedEntry(p, k), call[p].now) =>
                            \E m \in 1..Len(trace[p]) :
                                /\ Ran(p, m).stop_processing
                                /\ trace[p][m].pos < k

\* The snapshot a run() of a job that is not ended persists is WAITING.
C21_Step ==
    \A p \in Procs :
        (pc[p] = "unlocked" /\ ~call[p].is_end /\ snaps' # snaps) =>
            snaps'[job[p].id].status = "WAITING"

\* C21: in a run(now) of a job that is not ended, a NEW IMMEDIATE entry with
\* timestamp <= now for which is_match answers true and that no executed
\* stop_processing entry precedes is handed to the runner exactly once and
\* ends with the runner's result status, and the snapshot the run persists
\* has status WAITING.
C21_DueStepRuns == []C21_Inv /\ [][C21_Step]_vars

\* Scenario A: a job of one due step was run, the runner succeeded, the
\* snapshot is WAITING.
C21_Witness ==
    \E p \in Procs :
        /\ pc[p] = "ready" /\ job[p].id # None /\ call[p].runs = 1
        /\ ~job[p].loaded
        /\ Len(job[p].actions) = 1
        /\ job[p].built[1].ts = 0 /\ job[p].built[1].when = "IMMEDIATE"
        /\ job[p].actions[1].status = "SUCCESS"
        /\ snaps[job[p].id] # NoSnap
        /\ snaps[job[p].id].status = "WAITING"
        /\ snaps[job[p].id].actions = job[p].actions

\* run() returns from its last lines the same way whether the snapshot store
\* took the save or failed: nothing is raised and the job in memory is the
\* job after sync_items_status.
C22_Step ==
    \A p \in Procs :
        (pc[p] = "unlocked" /\ pc'[p] # "unlocked" /\ call[p].save_state
         /\ ~save_state_raises(sync_items_status(job[p]))) =>
            /\ pc'[p] = "ready"
            /\ ~call'[p].exc
            /\ job'[p] = sync_items_status(job[p])
            /\ snaps' \in {snaps,
                           [snaps EXCEPT ![job[p].id] =
                               save_state(sync_items_status(job[p]), call[p].is_end)]}

\* C22: when the save of the snapshot raises during run(), run() returns
\* without raising, and the items and the action statuses in memory are
\* those a successful save leaves.
C22_SaveSwallowed == [][C22_Step]_vars

\* A run executed its step, the save failed: no snapshot, nothing raised.
C22_Witness ==
    \E p \in Procs :
        /\ pc[p] = "ready" /\ job[p].id # None /\ call[p].runs = 1
        /\ ~call[p].exc
        /\ \E w \in call[p].writes : w.kind = "save_state"
        /\ snaps[job[p].id] = NoSnap
        /\ Len(job[p].actions) = 1 /\ job[p].actions[1].status = "SUCCESS"

\* ------------------------------------------------------------ resumption
\* The snapshot of a job is marked dirty by its creator (the membership has
\* to be read again at the next load).
MarkDirty(j) ==
    /\ snaps[j] # NoSnap
    /\ ~snaps[j].is_dirty
    /\ snaps' = [snaps EXCEPT ![j].is_dirty = TRUE]
    /\ UNCHANGED <<alarms, held, pc, job, call, trace>>

\* Alarm 1 is a root alarm or a consequence of alarm 2, with or without
\* affected service and group; alarm 2 is a root alarm or a consequence of
\* alarm 1, with or without the same group.
InitResume ==
    InitWith(AlarmDocs(1, {None, 2}, {"NONE"}, {None}, {{}, {2}}, {{}, GroupKeys}),
             AlarmDocs(2, {None, 1}, {"NONE"}, {None}, {{}}, {{}, GroupKeys}))

\* Resumption: one invocation builds a job for alarm 1 under policy ROOT or
\* ROOT_FIRST with at most one step; the caller refreshes the items and runs
\* the job at now = 0, the snapshot is marked dirty, the object is forgotten
\* and the job is loaded again from its snapshot.
NextResume ==
    \/ \E req \in Requests({1}, ImmediateStep \cup DelayedStep, 1, {"CR"}, {0}),
          pol \in {"ROOT", "ROOT_FIRST"} :
            FromRequest(1, [req EXCEPT !.item_policy = pol], 1)
    \/ \E ig \in BOOLEAN : RefreshItems(1, ig)
    \/ MarkDirty(1)
    \/ Load(1, 1)
    \/ Drop(1)
    \/ RunBegin(1, 0, FALSE, TRUE)
    \/ RunStep(1, PlainSuccess, {TRUE})

SpecResume == InitResume /\ [][NextResume]_vars

\* Every item of the job has a document, and its alarm is active in the store.
AllActive(j) ==
    \A k \in 1..Len(j.items) :
        j.items[k].alarm # None /\ alarms[j.items[k].alarm].st = "A"

\* The snapshot of the job's id is the one save_state builds from the object.
SavedAs(j) ==
    /\ j # NoJob
    /\ j.items # <<>>
    /\ ~save_state_raises(j)
    /\ \E c \in BOOLEAN : snaps[j.id] = save_state(j, c)

\* C23: when the snapshot is the one save_state built from job J, it is not
\* dirty and all alarms of J are active, from_state of the snapshot returns a
\* job with the id, the action entries and their statuses, the item statuses,
\* the end condition, max_repeats, repeat_delay, the items policy, the groups
\* and the services of J (the maintenance policy is the same on every job
\* from_request builds and is left out of the job record).
C23_RoundTrip ==
    \A p \in Procs :
        (SavedAs(job[p]) /\ AllActive(job[p])) =>
            LET J == job[p]
                L == from_state(snaps[J.id])
                st(j) == [k \in 1..Len(j.items) |->
                             <<j.items[k].alarm, j.items[k].status>>]
            IN  /\ ~from_state_raises(snaps[J.id])
                /\ L.id = J.id
                /\ L.actions = J.actions
                /\ st(L) = st(J)
                /\ L.end_condition = J.end_condition
                /\ L.max_repeats = J.max_repeats
                /\ L.repeat_delay = J.repeat_delay
                /\ L.items_policy = J.items_policy
                /\ L.groups = J.groups
                /\ L.services = J.services

\* C25: a constructor that returns hands out a job with at least one item:
\* from_request raises when the alarm cannot be resolved, and from_state, on
\* a dirty snapshot or not, raises or returns a job whose items are not empty.
C25_Step ==
    \A p \in Procs :
        (pc[p] = "idle" /\ pc'[p] = "ready") =>
            /\ job'[p] # NoJob
            /\ job'[p].items # <<>>

C25_BuiltWithItems == [][C25_Step]_vars

\* ------------------------------------------------------- operator actions
\* Operator actions: one invocation builds a job for alarm 1 with at most one
\* step and a whitelist that is empty or holds ACK; the operator asks for ACK
\* or LOG through run_action, the caller runs the job, the runner raises or
\* succeeds.
NextAction ==
    \/ \E req \in Requests({1}, ImmediateStep \cup DelayedStep, 1, {"CR"}, {0}),
          aa \in {{}, {"ACK"}} :
            FromRequest(1, [req EXCEPT !.allowed_actions = aa], 1)
    \/ \E action \in AlarmActions, cfg \in ImmediateStep, now \in 0..MaxTs :
            RunAction(1, action, cfg, now)
    \/ Drop(1)
    \/ \E now \in 0..MaxTs : RunBegin(1, now, FALSE, TRUE)
    \/ RunStep(1, RaiseOrSuccess, {TRUE})

SpecAction == Init /\ [][NextAction]_vars

\* C24: run_action with an action that is not on the whitelist of the job
\* appends no entry and does not call run(): every call of run() made by
\* run_action is made for an action of the whitelist.
C24_Step ==
    \A p \in Procs :
        (call'[p].runs = call[p].runs + 1 /\ call'[p].action # "NONE") =>
            call'[p].action \in job[p].allowed_actions

C24_DeniedDropped == [][C24_Step]_vars

\* --------------------------------------------------------- archived leader
\* The leader item of the object is marked ARCHIVED between two calls (its
\* alarm has gone to the archive).
ArchiveLeader(p) ==
    /\ pc[p] = "ready"
    /\ job[p].items # <<>>
    /\ job[p].items[1].status # "ARCHIVED"
    /\ job' = [job EXCEPT ![p].items[1].status = "ARCHIVED"]
    /\ UNCHANGED <<alarms, snaps, held, pc, call, trace>>

\* Archived leader: one invocation builds a job for alarm 1 with at most one
\* step; the leader item is archived between the calls; the caller runs the
\* job, the runner raises or succeeds.
NextArchive ==
    \/ \E req \in Requests({1}, ImmediateStep \cup DelayedStep, 1, {"CR"}, {0}) :
            FromRequest(1, req, 1)
    \/ ArchiveLeader(1)
    \/ Drop(1)
    \/ \E now \in 0..MaxTs : RunBegin(1, now, FALSE, TRUE)
    \/ RunStep(1, RaiseOrSuccess, {TRUE})

SpecArchive == Init /\ [][NextArchive]_vars

\* C26: run() on a job whose first item is ARCHIVED raises before the lock is
\* asked for: no lock is acquired, no action is executed, nothing is written
\* to the alarm store or the snapshot store and the job is left as it was.
C26_Step ==
    \A p \in Procs :
        (/\ pc[p] = "ready"
         /\ job[p] # NoJob
         /\ job[p].items # <<>>
         /\ job[p].items[1].status = "ARCHIVED"
         /\ call'[p].runs = call[p].runs + 1) =>
            /\ call'[p].exc
            /\ pc'[p] = "ready"
            /\ call'[p].acq = 0
            /\ call'[p].writes = {}
            /\ trace'[p] = <<>>
            /\ job' = job
            /\ held' = held
            /\ snaps' = snaps
            /\ alarms' = alarms

C26_ArchivedLeaderRaises == [][C26_Step]_vars

\* A call of run() on a job with an archived leader has raised.
C26_Witness ==
    \E p \in Procs :
        /\ pc[p] = "ready"
        /\ job[p] # NoJob
        /\ job[p].items # <<>>
        /\ job[p].items[1].status = "ARCHIVED"
        /\ job[p].actions # <<>>
        /\ call[p].runs = 2
        /\ call[p].exc
        /\ call[p].acq = 0

\* The job of p has no group, and its leader alarm is not in the active
\* store.
LeaderGone(p) ==
    /\ job[p] # NoJob
    /\ job[p].items # <<>>
    /\ ~is_group(job[p])
    /\ \/ job[p].items[1].alarm = None
       \/ alarms[job[p].items[1].alarm].st # "A"

\* C27: when the leader alarm of a job without group is not in the active
\* store, run() does not raise on entry and reaches the lock, check_escalated
\* marks the leader item REMOVED without raising, and the end of the call
\* (sync_items_status, save_state) does not raise for a job that has actions.
C27_Step ==
    \A p \in Procs :
        /\ (pc[p] = "ready" /\ LeaderGone(p) /\ job[p].items[1].status # "ARCHIVED"
            /\ call'[p].runs = call[p].runs + 1) =>
                (~call'[p].exc /\ pc'[p] = "lock")
        /\ (pc[p] = "locked" /\ pc'[p] # "locked" /\ LeaderGone(p)) =>
                (~call'[p].exc /\ job'[p].items[1].status = "REMOVED")
        /\ (pc[p] = "unlocked" /\ pc'[p] # "unlocked" /\ LeaderGone(p)
            /\ job[p].actions # <<>>) =>
                ~call'[p].exc

C27_LeaderGoneRemoved == [][C27_Step]_vars

\* C28: a job built by from_request has the severity of its leader alarm as
\* base severity, so that the first run() of the job, made while the
\* severity of the alarm is what it was at construction, computes
\* changed = false.
C28_BaseSeverity ==
    \A p \in Procs :
        (job[p] # NoJob /\ ~job[p].loaded /\ job[p].items # <<>>) =>
            /\ (call[p].runs = 0 /\ pc[p] = "ready") =>
                    job[p].base_severity = severity(job[p])
            /\ (call[p].runs = 1 /\ pc[p] = "lock") => ~call[p].changed

\* Invocation p holds every key it asked the lock for.
HoldsKeys(p) == \A k \in call[p].keys : <<k, p>> \in held

\* C29: check_escalated is executed after the lock is acquired and before
\* the first action: from the entry of run() the call goes to nothing but
\* the acquisition, the step that runs check_escalated and enters the loop is
\* taken with the keys held, one acquisition made and no action executed,
\* and the job is not touched before that step.
C29_Step ==
    \A p \in Procs :
        /\ pc[p] = "lock" =>
                (pc'[p] \in {"lock", "locked"} /\ job'[p] = job[p])
        /\ (pc[p] \in {"lock", "locked"}
            /\ pc'[p] \in {"loop", "postloop", "exit"}) =>
                /\ pc[p] = "locked"
                /\ HoldsKeys(p)
                /\ call[p].acq = 1
                /\ trace[p] = <<>>
                /\ call'[p].exc \/ job'[p] = check_escalated(job[p])
        /\ Len(trace'[p]) > Len(trace[p]) => pc[p] = "loop"

C29_CheckUnderLock == [][C29_Step]_vars

\* An invocation has run check_escalated and stands before its first action
\* with the keys held, while the other invocation waits for the lock.
C29_Witness ==
    \E p \in Procs, q \in Procs :
        /\ p # q
        /\ pc[p] = "loop"
        /\ call[p].pos = 1
        /\ trace[p] = <<>>
        /\ call[p].acq = 1
        /\ HoldsKeys(p)
        /\ pc[q] = "lock"
        /\ call[q].keys \cap call[p].keys # {}

\* C30: a snapshot is written as completed (status SUCCESS) only when no
\* ON_END entry of the job is left NEW: as long as an ON_END entry is not
\* processed, the snapshot of an ended job stays WAITING.
C30_CompletedAfterOnEnd ==
    \A j \in JobIds :
        (snaps[j] # NoSnap /\ snaps[j].status = "SUCCESS") =>
            \A k \in 1..Len(snaps[j].actions) :
                ~(snaps[j].actions[k].when = "ON_END"
                  /\ snaps[j].actions[k].status = "NEW")

\* ------------------------------------------------------ stop-on-clear watch
\* One step run at the end of the job.
OnEndStep == {[delay |-> 0, when |-> "ON_END", stop |-> FALSE]}

\* The watch: one invocation builds a job for alarm 1 that ends on clear or
\* on ticket, with up to MaxReqActions steps (immediate, delayed or run at
\* the end); the job is run at now = 0 with and without force_end, nothing
\* is persisted; the runner succeeds with or without a tracking document.
NextWatch ==
    \/ \E req \in Requests({1}, ImmediateStep \cup DelayedStep \cup OnEndStep,
                            MaxReqActions, {"CR", "CT"}, {0}) :
            FromRequest(1, req, 1)
    \/ Drop(1)
    \/ \E fe \in BOOLEAN : RunBegin(1, 0, fe, FALSE)
    \/ RunStep(1, SuccessWithDoc, {TRUE})

SpecWatch == Init /\ [][NextWatch]_vars

\* The call of p has registered the stop-on-clear watch.
Watched(c) == \E w \in c.writes : w.kind = "add_watch"

\* C31: the step of run() that executes an entry registers the
\* stop-on-clear watch exactly when the result carries a document id, the end
\* condition is CT and the end phase of the run is false; no other step of
\* the run registers it.
C31_Step ==
    \A p \in Procs :
        IF Len(trace'[p]) = Len(trace[p]) + 1 /\ ~call'[p].exc
        THEN LET t == trace'[p][Len(trace'[p])]
             IN  IF job[p].end_condition = "CT" /\ t.document_id # 0
                    /\ ~call[p].is_end
                 THEN Watched(call'[p])
                 ELSE Watched(call'[p]) <=> Watched(call[p])
        ELSE Watched(call'[p]) => Watched(call[p])

C31_WatchOnTicket == [][C31_Step]_vars

\* A run of a CT job that is not in its end phase has executed an entry
\* whose result carries a document id, and has registered the watch.
C31_Witness ==
    \E p \in Procs :
        /\ pc[p] \in {"loop", "postloop"}
        /\ job[p].end_condition = "CT"
        /\ ~call[p].is_end
        /\ \E k \in 1..Len(trace[p]) : trace[p][k].document_id # 0
        /\ Watched(call[p])

\* C32: over any sequence of run() calls, those that execute SUCCESS entries
\* again included, a job built with one entry that never got a follow-on
\* entry holds at most max_repeats repeat entries (entries with
\* repeat_num > 0), all of them descended from that one entry.
C32_RepeatsBounded ==
    \A p \in Procs :
        (job[p] # NoJob /\ Len(job[p].built) = 1
         /\ Cardinality(RepeatsOf(p, 0)) = 1) =>
            Cardinality({k \in 1..Len(job[p].actions) :
                            job[p].actions[k].repeat_num > 0})
                <= job[p].max_repeats

\* The entries of p that were appended since the loop of the running call
\* took its sorted copy of the actions.
AppendedInCall(p) == (Len(call[p].sorted) + 1)..Len(job[p].actions)

\* Inside a call that has taken its sorted copy, an entry appended since has
\* status NEW and was not handed to the runner.
C33_Inv ==
    \A p \in Procs :
        (pc[p] \in {"loop", "postloop", "exit", "unlocked"} /\ call[p].pos >= 1) =>
            \A k \in AppendedInCall(p) :
                /\ job[p].actions[k].status = "NEW"
                /\ \A t \in 1..Len(trace[p]) : trace[p][t].idx # k

\* A follow-on entry (an appended entry with repeat_num = 0) is appended by
\* the step that executes an entry, with status NEW and the timestamp of
\* that entry.
C33_Step ==
    \A p \in Procs :
        (job[p].id # None /\ job'[p].id = job[p].id) =>
            \A k \in 1..Len(Appended(p)) :
                Appended(p)[k].repeat_num = 0 =>
                    /\ pc[p] = "loop" /\ Len(trace'[p]) = Len(trace[p]) + 1
                    /\ Appended(p)[k].status = "NEW"
                    /\ Appended(p)[k].ts = CurEntry(p).ts

\* C33: the entries appended during a run() (repeat clones, and follow-on
\* entries created with status NEW at the timestamp of the entry that
\* spawned them) are neither executed nor changed in status in that call.
C33_AppendedWait == []C33_Inv /\ [][C33_Step]_vars

\* The second run() of the object executes an entry that its first run()
\* appended, while the first original entry keeps its place.
C33_Witness ==
    \E p \in Procs :
        /\ pc[p] \in {"loop", "postloop"}
        /\ call[p].runs = 2
        /\ \E t \in 1..Len(trace[p]) :
                /\ trace[p][t].idx > Len(job[p].built)
                /\ trace[p][t].idx <= Len(call[p].sorted)
                /\ trace[p][t].pre = "NEW"
        /\ AppendedInCall(p) # {}

\* C34: inside the loop of a run() made without force_end, the end phase
\* that gates the entries (and that the snapshot is completed with) is
\* is_end of the items as check_escalated reloaded them inside the lock: a
\* leader cleared between the load of the job and the acquisition of the
\* lock makes the run an end-phase run.
C34_EndPhaseFresh ==
    \A p \in Procs :
        (pc[p] \in {"loop", "postloop"} /\ ~call[p].force_end) =>
            call[p].is_end = is_end(job[p])

\* ------------------------------------------------------------ item order
\* Item order: one invocation builds a job for alarm 1 with at most one step,
\* the caller refreshes the items and runs the job at now = 0, alarm 1 is
\* cleared between the calls, the object is forgotten and the job is loaded
\* again from its snapshot.
NextOrder ==
    \/ \E req \in Requests({1}, ImmediateStep \cup DelayedStep, 1, {"CA"}, {0}) :
            FromRequest(1, req, 1)
    \/ RefreshItems(1, FALSE)
    \/ ClearAlarm(1, {1})
    \/ Load(1, 1)
    \/ Drop(1)
    \/ RunBegin(1, 0, FALSE, TRUE)
    \/ RunStep(1, PlainSuccess, {TRUE})

SpecOrder == InitItems /\ [][NextOrder]_vars

\* The alarm ids of a list of items, in the order of the list.
AlarmsOfItems(items) == [k \in 1..Len(items) |-> items[k].alarm]

\* C35: from_state of a snapshot that is not dirty builds the items in the
\* order of the snapshot, whether the alarms are active or archived; the
\* first item is the alarm of the first item of the snapshot.
C35_Step ==
    \A p \in Procs :
        (pc[p] = "idle" /\ pc'[p] = "ready" /\ job'[p].loaded
         /\ ~snaps[job'[p].id].is_dirty) =>
            AlarmsOfItems(job'[p].items) = AlarmsOfItems(snaps[job'[p].id].items)

C35_OrderKept == [][C35_Step]_vars

\* C36: after a run() that persisted the job as completed, get_next_ts of
\* the job returns null, so that run_alarm_job schedules no further
\* invocation.
C36_CompletedNotRescheduled ==
    \A p \in Procs :
        (/\ pc[p] = "ready" /\ job[p] # NoJob /\ call[p].runs >= 1
         /\ ~call[p].exc
         /\ \E w \in call[p].writes : w.kind = "save_state"
         /\ job[p].items # <<>> /\ ~save_state_raises(job[p])
         /\ snaps[job[p].id] = save_state(job[p], TRUE)) =>
            get_next_ts(job[p]) = NoTs

\* C37: a snapshot persisted with status SUCCESS is never replaced by one
\* with status WAITING, whatever object makes the later run() and whether or
\* not the completing run was made with force_end.
C37_Step ==
    \A j \in JobIds :
        (snaps[j] # NoSnap /\ snaps[j].status = "SUCCESS") =>
            snaps'[j].status # "WAITING"

C37_CompletedStays == [][C37_Step]_vars

\* ------------------------------------------------------------- scheduling
\* run_alarm_job, lines 779-781: after run() the job is scheduled again
\* (the invocation goes back to idle) when get_next_ts gives a time; it is
\* not scheduled again (done) when get_next_ts gives None or run() raised.
Reschedule(p) ==
    /\ pc[p] = "ready"
    /\ call[p].runs >= 1
    /\ pc' = [pc EXCEPT ![p] =
            IF ~call[p].exc /\ get_next_ts(job[p]) # NoTs THEN "idle" ELSE "done"]
    /\ job' = [job EXCEPT ![p] = NoJob]
    /\ call' = [call EXCEPT ![p] = NoCall]
    /\ trace' = [trace EXCEPT ![p] = <<>>]
    /\ UNCHANGED <<alarms, snaps, held>>

\* The latest time of a run of the scheduled job: every entry is due then.
SchedTop == 2 * TicksPerSecond

\* The runner returns (it does not raise), without follow-on action.
RunnerReturns ==
    {o \in RunnerOutcomes : ~o.raised /\ o.action = NoAction /\ o.document_id = 0}

\* The steps of the job: it is built from a request of up to MaxReqActions
\* steps (immediate, immediate with stop_processing, delayed) with end
\* condition M and max_repeats = 0, or loaded from its snapshot; it is run
\* once (a loaded job not before the time get_next_ts asked for), and
\* scheduled again or not.
NextSchedJob ==
    \/ \E req \in Requests({1}, ImmediateStep \cup ImmediateStop \cup DelayedStep,
                            MaxReqActions, {"M"}, {0}) :
            FromRequest(1, req, 1)
    \/ Load(1, 1)
    \/ \E now \in 0..SchedTop :
            /\ pc[1] = "ready"
            /\ call[1].runs = 0
            /\ job[1].loaded => now >= get_next_ts(job[1])
            /\ RunBegin(1, now, FALSE, TRUE)
    \/ RunStep(1, RunnerReturns, {TRUE})
    \/ Reschedule(1)

\* Scheduling: the job above, and an alarm whose severity changes between
\* the invocations.
NextSched ==
    \/ ChangeSeverity(1, {1})
    \/ NextSchedJob

SpecSched == Init /\ [][NextSched]_vars

\* The scheduler runs a scheduled job, and a run goes on to its end.
SpecSchedFair == SpecSched /\ WF_vars(NextSchedJob)

\* The job is not scheduled any more, and its snapshot has no entry that is
\* NEW and not ON_END.
SchedDone ==
    /\ pc[1] = "done"
    /\ snaps[1] # NoSnap =>
            \A k \in 1..Len(snaps[1].actions) :
                ~(snaps[1].actions[k].status = "NEW"
                  /\ snaps[1].actions[k].when # "ON_END")

\* C38: a job that never ends (end condition M), whose runner always
\* returns, with max_repeats = 0 and no follow-on action, run again and
\* again by run_alarm_job at the times get_next_ts gives, eventually is not
\* scheduled any more, with no entry left that is NEW and not ON_END.
C38_Terminates == <>SchedDone

\* C39: after refresh_items no two items of the job refer to the same alarm,
\* by whatever paths (group, reference, consequence of the leader) the
\* alarm is reached.
C39_Step ==
    \A p \in Procs :
        (/\ pc[p] = "ready" /\ pc'[p] = "ready" /\ call'[p] = call[p]
         /\ job[p] # NoJob /\ job'[p] # NoJob /\ job'[p].id = job[p].id
         /\ job'[p] = refresh_items(job[p], TRUE)
            \/ job'[p] = refresh_items(job[p], FALSE)) =>
            \A k, m \in 1..Len(job'[p].items) :
                job'[p].items[k].alarm = job'[p].items[m].alarm => k = m

C39_NoDuplicateItems == [][C39_Step]_vars

\* ---------------------------------------------------------------------
\* The watcher jobs: AlarmWatchersJob (alarmjob.py) and RunWatchersJob
\* (run_watchers.py).  Process 1 is the AlarmWatchersJob, process 2 the
\* RunWatchersJob; trace[p] holds the last call of get_next_timestamp:
\* the clock at the call, the minimum wait timestamp the model returned
\* and the timestamp the function returned.
\* ---------------------------------------------------------------------

\* alarmjob.py: the interval when no alarm waits, and the shift when the
\* earliest wait is due, in seconds.
WAIT_DEFAULT_INTERVAL_SEC == 120

MIN_NEXT_SHIFT_SEC == 10

\* run_watchers.py: the same two constants of the RunWatchersJob.
RunWatchers_WAIT_DEFAULT_INTERVAL_SEC == 180

RunWatchers_MIN_NEXT_SHIFT_SEC == 30

\* datetime.timedelta(seconds=n), in ticks.
timedelta_seconds(n) == n * TicksPerSecond

\* The body of get_next_timestamp with the earliest wait returned as is
\* even when it is due.
get_next_timestamp_no_shift(clock, wait_ts, default_interval, min_shift) ==
    LET now == replace_microsecond_0(clock)
    IN  IF wait_ts = NoTs THEN now + timedelta_seconds(default_interval)
        ELSE wait_ts

\* The body both jobs share: now is the clock cut to the whole second;
\* without a wait timestamp the default interval after now, with a wait
\* timestamp not later than now the minimum shift after now, otherwise
\* the wait timestamp.
get_next_timestamp(clock, wait_ts, default_interval, min_shift) ==
    LET now == replace_microsecond_0(clock)
    IN  IF wait_ts = NoTs THEN now + timedelta_seconds(default_interval)
        ELSE IF wait_ts <= now THEN now + timedelta_seconds(min_shift)
        ELSE wait_ts

\* AlarmWatchersJob.get_next_timestamp.
AlarmWatchersJob_get_next_timestamp(clock, wait_ts) ==
    get_next_timestamp(clock, wait_ts, WAIT_DEFAULT_INTERVAL_SEC, MIN_NEXT_SHIFT_SEC)

\* RunWatchersJob.get_next_timestamp.
RunWatchersJob_get_next_timestamp(clock, wait_ts) ==
    get_next_timestamp(clock, wait_ts, RunWatchers_WAIT_DEFAULT_INTERVAL_SEC,
                       RunWatchers_MIN_NEXT_SHIFT_SEC)

\* datetime.datetime.now(): the clock readings, two seconds in ticks.
ClockTicks == 0 .. (2 * TicksPerSecond - 1)

\* get_min_wait_ts(): no wait timestamp, or the earliest one; the values
\* reach from before the clock to a second after it.
MinWaitTs == {NoTs} \cup (0 .. (3 * TicksPerSecond - 1))

\* The scheduler asks the AlarmWatchersJob for its next run.
AlarmWatchersSchedule(clock, wait_ts) ==
    /\ trace' = [trace EXCEPT ![1] =
                   << [clock |-> clock, wait_ts |-> wait_ts,
                       next_ts |-> AlarmWatchersJob_get_next_timestamp(clock, wait_ts)] >>]
    /\ UNCHANGED <<alarms, snaps, held, pc, job, call>>

\* The scheduler asks the RunWatchersJob for its next run.
RunWatchersSchedule(clock, wait_ts) ==
    /\ trace' = [trace EXCEPT ![2] =
                   << [clock |-> clock, wait_ts |-> wait_ts,
                       next_ts |-> RunWatchersJob_get_next_timestamp(clock, wait_ts)] >>]
    /\ UNCHANGED <<alarms, snaps, held, pc, job, call>>

NextWatchers ==
    \/ \E clock \in ClockTicks, wait_ts \in MinWaitTs : AlarmWatchersSchedule(clock, wait_ts)
    \/ \E clock \in ClockTicks, wait_ts \in MinWaitTs : RunWatchersSchedule(clock, wait_ts)

SpecWatchers == Init /\ [][NextWatchers]_vars

\* The default interval and the minimum shift of process p's job.
WatchersDefault(p) ==
    IF p = 1 THEN WAIT_DEFAULT_INTERVAL_SEC ELSE RunWatchers_WAIT_DEFAULT_INTERVAL_SEC

WatchersShift(p) ==
    IF p = 1 THEN MIN_NEXT_SHIFT_SEC ELSE RunWatchers_MIN_NEXT_SHIFT_SEC

====
